---- MODULE Spec2Model ----
(***************************************************************************)
(* A model of the hls-downloader runtime: the manifest watcher             *)
(* (downloader/src/manifest_watcher.rs), the path resolver and mkdir cache *)
(* (downloader/src/fs.rs), the download worker pool                        *)
(* (downloader/src/downloader.rs) and the driver (downloader/src/main.rs). *)
(***************************************************************************)
EXTENDS Naturals, Sequences, FiniteSets

\* ------------------------------------------------------------------ bounds

\* Longest manifest (in lines) handed to ManifestWatcher::update.
MaxLines == 2

\* Longest window of a live playlist.
MaxWindow == 3

\* Number of worker tasks (DownloadWorker.worker_count).
WorkerCount == 2

\* ------------------------------------------------------------ hls::Line

\* Option<String>: None is the empty sequence, Some(s) is <<s>>.
None == <<>>
Some(s) == <<s>>

\* Option::unwrap_or_default on Option<String>.
unwrap_or_default(o) == IF o = None THEN "" ELSE o[1]

\* hls::Line, as far as the watcher looks at it.
LineUri(u) == [t |-> "Uri", u |-> u]
LineKey(o) == [t |-> "Key", attrs |-> [uri |-> o]]
LineTag(n) == [t |-> "Tag", name |-> n]

\* downloader::manifest_watcher::FileAdd.  line and pos are history fields:
\* the index of the manifest line the event comes from, and for a Segment the
\* value of the loop counter i (the position of the Uri line among the
\* manifest's Uri lines, from 1); 0 for a Key.
FileAddSegment(u, line, pos) == [kind |-> "Segment", uri |-> u, line |-> line, pos |-> pos]
FileAddKey(u, line) == [kind |-> "Key", uri |-> u, line |-> line, pos |-> 0]

\* The Uri strings of a manifest, in order.
RECURSIVE uris(_)
uris(m) ==
  IF m = <<>> THEN <<>>
  ELSE IF m[1].t = "Uri" THEN <<m[1].u>> \o uris(Tail(m)) ELSE uris(Tail(m))

\* Sequences over S of length at most n.
SeqUpTo(S, n) == UNION {[1..k -> S] : k \in 0..n}

RECURSIVE SelectEvents(_, _)
SelectEvents(evs, kind) ==
  IF evs = <<>> THEN <<>>
  ELSE IF evs[1].kind = kind THEN <<evs[1]>> \o SelectEvents(Tail(evs), kind)
  ELSE SelectEvents(Tail(evs), kind)


\* ------------------------------------------------------- url::Url, fs.rs

\* The Uri strings of the model.  RelativeRefs have no scheme, AbsoluteRefs
\* are complete URLs, BadRefs have a scheme and do not parse.
RelativeRefs ==
  {"a.ts", "d/b.ts", "k1", "", "s1.ts", "s2.ts", "s3.ts", "s4.ts", "s5.ts", "s6.ts",
   "../x.ts", "/r.ts", "//g/x.ts"}
AbsoluteRefs == {"http://h/live/a.ts", "http://g/v/c.ts", "http://h/live/../q.ts",
                 "http://h//etc/x", "http://h"}
BadRefs == {"http://[", "http://"}

\* The text of a Uri string, cut into scheme prefix, '/' and names.
Text(s) ==
  CASE s = "" -> <<>>
    [] s = "d/b.ts" -> <<"d", "/", "b.ts">>
    [] s = "../x.ts" -> <<"..", "/", "x.ts">>
    [] s = "/r.ts" -> <<"/", "r.ts">>
    [] s = "//g/x.ts" -> <<"/", "/", "g", "/", "x.ts">>
    [] s = "http://h/live/a.ts" -> <<"http://", "h", "/", "live", "/", "a.ts">>
    [] s = "http://g/v/c.ts" -> <<"http://", "g", "/", "v", "/", "c.ts">>
    [] s = "http://h/live/../q.ts" -> <<"http://", "h", "/", "live", "/", "..", "/", "q.ts">>
    [] s = "http://h//etc/x" -> <<"http://", "h", "/", "/", "etc", "/", "x">>
    [] s = "http://h" -> <<"http://", "h">>
    [] s = "http://[" -> <<"http://", "[">>
    [] s = "http://" -> <<"http://">>
    [] OTHER -> <<s>>

Ok(v) == [ok |-> TRUE, v |-> v]
Err(e) == [ok |-> FALSE, e |-> e]

Front(q) == SubSeq(q, 1, Len(q) - 1)

\* A Url is [host, path]; path holds the segments of Url::path(), each one
\* written after a '/'; the path "/" has no segment.
\* args.base_url of the model: http://h/live/index.m3u8
BaseUrl == [host |-> "h", path |-> <<"live", "index.m3u8">>]

\* The segments of a path text: every '/' opens a segment, empty when no name
\* follows it.
RECURSIVE SplitPath(_)
SplitPath(t) ==
  IF t = <<>> THEN <<>>
  ELSE IF Len(t) >= 2 /\ t[2] # "/" THEN <<t[2]>> \o SplitPath(SubSeq(t, 3, Len(t)))
  ELSE <<"">> \o SplitPath(Tail(t))

\* The url crate's removal of dot segments: ".." drops the segment before it.
RECURSIVE RemoveDots(_, _)
RemoveDots(segs, acc) ==
  IF segs = <<>> THEN acc
  ELSE IF segs[1] = ".." THEN RemoveDots(Tail(segs), Front(acc))
  ELSE IF segs[1] = "." THEN RemoveDots(Tail(segs), acc)
  ELSE RemoveDots(Tail(segs), Append(acc, segs[1]))

\* The Url of the text after a scheme: a host, then a path.
ParseAuthority(t) ==
  IF t = <<>> \/ t[1] = "/" THEN Err("EmptyHost")
  ELSE IF t[1] = "[" THEN Err("InvalidIpv6Address")
  ELSE Ok([host |-> t[1], path |-> RemoveDots(SplitPath(Tail(t)), <<>>)])

\* Url::parse: a text without a scheme is RelativeUrlWithoutBase.
UrlParse(s) ==
  LET t == Text(s) IN
    IF t # <<>> /\ t[1] = "http://" THEN ParseAuthority(Tail(t))
    ELSE Err("RelativeUrlWithoutBase")

\* Url::join: a reference with a scheme stands alone; "//" names a host; a
\* leading '/' replaces the base path; any other reference replaces the base
\* path's last segment; the empty reference is the base itself.
UrlJoin(base, s) ==
  LET t == Text(s) IN
    IF t = <<>> THEN Ok(base)
    ELSE IF t[1] = "http://" THEN ParseAuthority(Tail(t))
    ELSE IF Len(t) >= 2 /\ t[1] = "/" /\ t[2] = "/" THEN ParseAuthority(SubSeq(t, 3, Len(t)))
    ELSE IF t[1] = "/" THEN Ok([base EXCEPT !.path = RemoveDots(SplitPath(t), <<>>)])
    ELSE Ok([base EXCEPT !.path = RemoveDots(Front(base.path) \o SplitPath(<<"/">> \o t), <<>>)])

WorkItem(local_path, remote_url, file_type) ==
  [local_path |-> local_path, remote_url |-> remote_url, file_type |-> file_type]

\* std::path::Path of a text: its components.  A leading separator is the
\* root component "/"; repeated and trailing separators name nothing.
RECURSIVE Names(_)
Names(segs) ==
  IF segs = <<>> THEN <<>>
  ELSE IF segs[1] = "" THEN Names(Tail(segs)) ELSE <<segs[1]>> \o Names(Tail(segs))

\* fs.rs:24-25: Path::new(&remote_url.path()[1..]), the path text without
\* its first '/'.  What follows an empty first segment starts with a '/'.
LocalPath(segs) ==
  IF segs = <<>> THEN <<>>
  ELSE IF Len(segs) >= 2 /\ segs[1] = "" THEN <<"/">> \o Names(Tail(segs))
  ELSE Names(segs)

\* Faulty variants of the resolver's choice: the manifest url taken whatever
\* the uri says, and the join attempted after any parse error.
or_else_base(first, manifest_url, url) == [res |-> Ok(manifest_url), joined |-> FALSE]
or_else_any(first, manifest_url, url) ==
  IF first.ok THEN [res |-> first, joined |-> FALSE]
  ELSE [res |-> UrlJoin(manifest_url, url), joined |-> TRUE]

\* fs.rs:15-21: Url::parse(url).or_else(..): the result and whether
\* manifest_url.join was called.
or_else(first, manifest_url, url) ==
  IF first.ok THEN [res |-> first, joined |-> FALSE]
  ELSE IF first.e = "RelativeUrlWithoutBase"
       THEN [res |-> UrlJoin(manifest_url, url), joined |-> TRUE]
  ELSE [res |-> first, joined |-> FALSE]

\* fs::parse_path_from_url.
parse_path_from_url(manifest_url, url, file_type) ==
  LET remote_url == or_else(UrlParse(url), manifest_url, url).res
  IN IF ~remote_url.ok THEN remote_url
     ELSE Ok(WorkItem(LocalPath(remote_url.v.path), remote_url.v, file_type))

\* fs::local_base_dir.
local_base_dir(work_item) ==
  IF work_item.file_type = "Key" THEN "keys" ELSE "segments"

\* args.output_dir of the model.
OutputDir == "out"

\* Path::parent: None for the empty path and for the root.
Parent(p) == IF p = <<>> \/ p = <<"/">> THEN None ELSE Some(Front(p))

\* Path::join: an absolute path replaces the path it is joined to.
PathJoin(p, q) == IF q # <<>> /\ q[1] = "/" THEN q ELSE p \o q

\* Path::starts_with, component by component.
starts_with(p, base) == Len(base) <= Len(p) /\ SubSeq(p, 1, Len(base)) = base

\* fs.rs:34-37: the directory fs::mkdirp creates for a work item whose
\* local_path has a parent.
MkdirPath(output_dir, work_item) ==
  PathJoin(PathJoin(<<output_dir>>, <<local_base_dir(work_item)>>),
           Parent(work_item.local_path)[1])

\* fs.rs:37,39: how mkdirp gets to its lock: the unwrap of parent() panics
\* when the local path has no parent; debug_assert!, compiled into a debug
\* build only, panics when the directory is not under output_dir.
MkdirpEntry(output_dir, work_item, debug) ==
  IF Parent(work_item.local_path) = None THEN "panic_unwrap"
  ELSE IF debug /\ ~starts_with(MkdirPath(output_dir, work_item), <<output_dir>>)
       THEN "panic_assert"
  ELSE "lock"

\* ------------------------------------------------ hls/src/parser.rs (nom)

\* A text is a sequence of characters.  A parser answers POk(rest, value) or
\* PErr; PPanic is a parser that aborted.
POk(rest, v) == [ok |-> TRUE, rest |-> rest, v |-> v]
PErr == [ok |-> FALSE, panic |-> FALSE]
PPanic == [ok |-> FALSE, panic |-> TRUE]

Take(i, n) == SubSeq(i, 1, n)
Drop(i, n) == SubSeq(i, n + 1, Len(i))

\* nom tag(p): the text starts with p.
StartsWith(i, p) == Len(i) >= Len(p) /\ Take(i, Len(p)) = p

\* nom take_while(S) and take_till(S): the length of the longest prefix of
\* characters in S, and of characters not in S.
RECURSIVE SpanLen(_, _)
SpanLen(i, S) == IF i = <<>> \/ i[1] \notin S THEN 0 ELSE 1 + SpanLen(Tail(i), S)

RECURSIVE TillLen(_, _)
TillLen(i, S) == IF i = <<>> \/ i[1] \in S THEN 0 ELSE 1 + TillLen(Tail(i), S)

Upper == {"A", "B", "C", "D", "E", "F", "G", "H", "I", "J", "K", "L", "M",
          "N", "O", "P", "Q", "R", "S", "T", "U", "V", "W", "X", "Y", "Z"}
NonZeroDigits == {"1", "2", "3", "4", "5", "6", "7", "8", "9"}
Digits == {"0"} \cup NonZeroDigits
HexDigits == Digits \cup {"A", "B", "C", "D", "E", "F", "a", "b", "c", "d", "e", "f"}
KeywordChars == Upper \cup {"-"} \cup Digits
NonString == {"\"", "\r", "\n"}
EolChars == {"\r", "\n"}
WHITESPACE == {" ", "\t", "\r", "\n"}

\* nom's combinators.  A parser is an operator on the text; a combinator
\* takes the answer of the parser before it and the parsers that follow.

\* tag(p) and char(c).
Tag(i, p) == IF StartsWith(i, p) THEN POk(Drop(i, Len(p)), p) ELSE PErr

\* one_of(S).
OneOf(i, S) == IF i # <<>> /\ i[1] \in S THEN POk(Tail(i), <<i[1]>>) ELSE PErr

\* take_while(S), digit0.
TakeWhile(i, S) == POk(Drop(i, SpanLen(i, S)), Take(i, SpanLen(i, S)))

\* digit1, hex_digit1.
TakeWhile1(i, S) == IF SpanLen(i, S) >= 1 THEN TakeWhile(i, S) ELSE PErr

\* take_till(S).
TakeTill(i, S) == POk(Drop(i, TillLen(i, S)), Take(i, TillLen(i, S)))

\* is_not(S).
IsNot(i, S) == IF TillLen(i, S) >= 1 THEN TakeTill(i, S) ELSE PErr

\* alt((a, b)): a's answer when a matched, b's otherwise.
Alt(a, b) == IF a.ok THEN a ELSE b

\* map(p, F).
Map(r, F(_)) == IF r.ok THEN POk(r.rest, F(r.v)) ELSE r

\* map_res(p, F): F's error is a parse error.
MapRes(r, F(_)) == IF r.ok THEN (IF F(r.v).ok THEN POk(r.rest, F(r.v).v) ELSE PErr) ELSE r

\* p(i).map(|(i, s)| (i, F(s).unwrap())): F's error aborts.
MapUnwrap(r, F(_)) == IF r.ok THEN (IF F(r.v).ok THEN POk(r.rest, F(r.v).v) ELSE PPanic) ELSE r

\* The parser P after the answer r, the two values joined by F.
AndThen(r, P(_), F(_, _)) ==
  IF r.ok THEN LET q == P(r.rest) IN IF q.ok THEN POk(q.rest, F(r.v, q.v)) ELSE q
  ELSE r

\* pair, preceded, terminated.
Pair(r, P(_)) == AndThen(r, P, LAMBDA a, b : <<a, b>>)
Preceded(r, P(_)) == AndThen(r, P, LAMBDA a, b : b)
Terminated(r, P(_)) == AndThen(r, P, LAMBDA a, b : a)

\* opt(p), not(p), peek(p), recognize(p) on the text i.
Opt(r, i) == IF r.ok THEN POk(r.rest, Some(r.v)) ELSE POk(i, None)
Not(r, i) == IF r.ok THEN PErr ELSE POk(i, <<>>)
Peek(r, i) == IF r.ok THEN POk(i, r.v) ELSE r
Recognize(r, i) == IF r.ok THEN POk(r.rest, Take(i, Len(i) - Len(r.rest))) ELSE r

\* nom line_ending: "\n" or "\r\n".
line_ending(i) == Alt(Tag(i, <<"\n">>), Tag(i, <<"\r", "\n">>))

\* parser.rs:14-24.
keyword1(i) ==
  Recognize(Pair(OneOf(i, Upper), LAMBDA r : TakeWhile(r, KeywordChars)), i)

\* parser.rs:30-32: delimited(char('"'), take_till(is_non_string), char('"')).
quoted_string(i) ==
  Terminated(Preceded(Tag(i, <<"\"">>), LAMBDA r : TakeTill(r, NonString)),
             LAMBDA r : Tag(r, <<"\"">>))

\* parser.rs:34-36: "0", or a non-zero digit and the digits after it.
dec_digit1(i) ==
  Alt(Tag(i, <<"0">>),
      Recognize(Pair(OneOf(i, NonZeroDigits), LAMBDA r : TakeWhile(r, Digits)), i))

\* The digits of a number, by value.
HexAlphabet ==
  <<"0", "1", "2", "3", "4", "5", "6", "7", "8", "9", "a", "b", "c", "d", "e", "f">>

\* u64::MAX, as a decimal numeral.
U64Max ==
  <<"1", "8", "4", "4", "6", "7", "4", "4", "0", "7", "3", "7", "0", "9", "5", "5", "1", "6",
    "1", "5">>

DigitValue(c) ==
  CASE c = "0" -> 0 [] c = "1" -> 1 [] c = "2" -> 2 [] c = "3" -> 3 [] c = "4" -> 4
    [] c = "5" -> 5 [] c = "6" -> 6 [] c = "7" -> 7 [] c = "8" -> 8 [] c = "9" -> 9

\* Two numerals of one length: the first is not above the second.
RECURSIVE NumeralLeq(_, _)
NumeralLeq(a, b) ==
  IF a = <<>> THEN TRUE
  ELSE IF DigitValue(a[1]) < DigitValue(b[1]) THEN TRUE
  ELSE IF DigitValue(a[1]) > DigitValue(b[1]) THEN FALSE
  ELSE NumeralLeq(Tail(a), Tail(b))

\* str::parse::<u64> of a numeral without leading zeros.  A u64 is kept as
\* its decimal numeral.
parse_u64(s) ==
  IF Len(s) < Len(U64Max) \/ (Len(s) = Len(U64Max) /\ NumeralLeq(s, U64Max)) THEN Ok(s)
  ELSE Err("PosOverflow")

\* The number a numeral writes, and u64's Display: the numeral of a number.
RECURSIVE NumeralValue(_)
NumeralValue(s) ==
  IF s = <<>> THEN 0 ELSE 10 * NumeralValue(Front(s)) + DigitValue(s[Len(s)])

RECURSIVE to_string(_)
to_string(n) ==
  IF n < 10 THEN <<HexAlphabet[n + 1]>>
  ELSE to_string(n \div 10) \o <<HexAlphabet[(n % 10) + 1]>>

\* hls/src/parser.rs:38-40: map_res(dec_digit1, |s| s.parse::<u64>()).
integer(i) == MapRes(dec_digit1(i), parse_u64)

\* hls_parser/src/parser.rs:36-38:
\* dec_digit1(i).map(|(i, s)| (i, s.parse::<u64>().unwrap())).
hls_parser_integer(i) == MapUnwrap(dec_digit1(i), parse_u64)

\* parser.rs:42-47: an optional '-', an optional dec_digit1, '.', digits.  An
\* f64 is kept as its text.
float(i) ==
  Recognize(
    Preceded(Preceded(Preceded(Opt(Tag(i, <<"-">>), i),
                               LAMBDA r : Opt(dec_digit1(r), r)),
                      LAMBDA r : Tag(r, <<".">>)),
             LAMBDA r : TakeWhile1(r, Digits)),
    i)

\* parser.rs:49-57: '#', "EXT", an optional "-X-", keyword characters.
tag_name(i) ==
  Preceded(Preceded(Preceded(Tag(i, <<"#">>),
                             LAMBDA r : Tag(r, <<"E", "X", "T">>)),
                    LAMBDA r : Opt(Tag(r, <<"-", "X", "-">>), r)),
           LAMBDA r : TakeWhile(r, KeywordChars))

\* parser.rs:59-61.
hex_sequence(i) ==
  Preceded(Alt(Tag(i, <<"0", "x">>), Tag(i, <<"0", "X">>)), LAMBDA r : TakeWhile1(r, HexDigits))

\* parser.rs:63-68: float, ',', anything up to the line ending.
duration_name(i) ==
  Terminated(Terminated(float(i), LAMBDA r : Tag(r, <<",">>)),
             LAMBDA r : TakeTill(r, EolChars))

\* A faulty variant of comment: every line that starts with '#'.
comment_any(i) ==
  Map(Preceded(Preceded(Tag(i, <<"#">>), LAMBDA r : TakeTill(r, EolChars)), line_ending),
      LAMBDA v : <<>>)

\* parser.rs:70-80: '#' not followed by "EXT", up to and with the line ending.
comment(i) ==
  Map(Preceded(Preceded(Preceded(Tag(i, <<"#">>),
                                 LAMBDA r : Not(Tag(r, <<"E", "X", "T">>), r)),
                        LAMBDA r : TakeTill(r, EolChars)),
               line_ending),
      LAMBDA v : <<>>)

\* A faulty variant of resolution: the two numbers change places.
resolution_swapped(i) ==
  AndThen(Terminated(integer(i), LAMBDA r : Tag(r, <<"x">>)), integer,
          LAMBDA width, height : [k |-> "Resolution", width |-> height, height |-> width])

\* parser.rs:82-87: separated_pair(integer, char('x'), integer).
resolution(i) ==
  AndThen(Terminated(integer(i), LAMBDA r : Tag(r, <<"x">>)), integer,
          LAMBDA width, height : [k |-> "Resolution", width |-> width, height |-> height])

AttributeValue(k, r) == Map(r, LAMBDA v : [k |-> k, v |-> v])

\* A faulty variant of the order: integer tried before hex_sequence and
\* resolution.
attr_val_integer_first(i) ==
  Alt(AttributeValue("Integer", integer(i)),
  Alt(AttributeValue("Hex", hex_sequence(i)),
  Alt(resolution(i),
  Alt(AttributeValue("Float", float(i)),
  Alt(AttributeValue("String", quoted_string(i)),
      AttributeValue("Keyword", keyword1(i)))))))

\* parser.rs:89-98: the first alternative that matches.
attr_val(i) ==
  Alt(AttributeValue("Hex", hex_sequence(i)),
  Alt(resolution(i),
  Alt(AttributeValue("Float", float(i)),
  Alt(AttributeValue("Integer", integer(i)),
  Alt(AttributeValue("String", quoted_string(i)),
      AttributeValue("Keyword", keyword1(i)))))))

\* parser.rs:100-105: separated_pair(keyword1, char('='), attr_val).
attr(i) ==
  AndThen(Terminated(keyword1(i), LAMBDA r : Tag(r, <<"=">>)), attr_val,
          LAMBDA name, value : [name |-> name, value |-> value])

\* nom separated_list1(char(','), attr): a ',' that no attr follows is left
\* in the text.  SeparatedMore is one turn of its loop, given the answer
\* of the separator and the element.
RECURSIVE attrs_more(_, _)
SeparatedMore(r, i, acc) ==
  IF r.ok THEN attrs_more(r.rest, Append(acc, r.v)) ELSE POk(i, acc)

attrs_more(i, acc) == SeparatedMore(Preceded(Tag(i, <<",">>), attr), i, acc)

SeparatedList1(r) == IF r.ok THEN attrs_more(r.rest, <<r.v>>) ELSE r

\* parser.rs:107-109.
attrs(i) == SeparatedList1(attr(i))

TagArgs(k, r) == Map(r, LAMBDA v : [k |-> k, v |-> v])

\* A faulty variant of tag_args: an integer whatever follows it.
tag_args_integer_any(i) ==
  Alt(TagArgs("Float", duration_name(i)),
  Alt(TagArgs("Attributes", attrs(i)),
  Alt(TagArgs("Integer", integer(i)),
      TagArgs("String", IsNot(i, WHITESPACE)))))

\* parser.rs:115-122: the first alternative that matches.
tag_args(i) ==
  Alt(TagArgs("Float", duration_name(i)),
  Alt(TagArgs("Attributes", attrs(i)),
  Alt(TagArgs("Integer", Terminated(integer(i), LAMBDA r : Peek(line_ending(r), r))),
      TagArgs("String", IsNot(i, WHITESPACE)))))

\* parser.rs:111-113: opt(preceded(char(':'), tag_args)).
maybe_tag_args(i) == Opt(Preceded(Tag(i, <<":">>), tag_args), i)

\* models::Line of the parser.
ParsedTag(name, args) == [t |-> "Tag", name |-> name, args |-> args]
ParsedUri(s) == [t |-> "Uri", u |-> s]

\* parser.rs:124-129: terminated(pair(tag_name, maybe_tag_args), line_ending).
playlist_tag(i) ==
  Terminated(AndThen(tag_name(i), maybe_tag_args, ParsedTag), line_ending)

\* parser.rs:131-133: not '#', characters that are not white space, a line
\* ending.
uri(i) ==
  Preceded(Not(Tag(i, <<"#">>), i),
           LAMBDA r : Terminated(IsNot(r, WHITESPACE), line_ending))

\* parser.rs:135-142: the first alternative that matches; a blank line and a
\* comment give no line.
playlist_line(i) ==
  Alt(Map(line_ending(i), LAMBDA v : None),
  Alt(Map(playlist_tag(i), Some),
  Alt(Map(comment(i), LAMBDA v : None),
      Map(uri(i), LAMBDA u : Some(ParsedUri(u))))))

\* nom fold_many1 with the closure of parser.rs:145-150: playlist_line as
\* often as it matches, the lines it gave pushed; the text it stopped at is
\* the rest.  FoldMany is one turn of the loop, given playlist_line's answer.
RECURSIVE fold_many(_, _)
FoldMany(r, i, acc) ==
  IF r.ok THEN fold_many(r.rest, acc \o r.v) ELSE POk(i, acc)

fold_many(i, acc) == FoldMany(playlist_line(i), i, acc)

\* fold_many1 fails when the parser did not match once.
FoldMany1(r, i) == IF r.rest = i THEN PErr ELSE r

\* parser.rs:144-151.
all_tags(i) == FoldMany1(fold_many(i, <<>>), i)

\* hls_parser/src/models.rs:26-43, Manifest::parse: text left over is logged
\* and the lines parsed so far are returned.
ManifestResult(r) == IF r.ok THEN Ok([lines |-> r.v]) ELSE Err("Error")

ManifestParse(s) == ManifestResult(all_tags(s))

\* The hex crate.  A byte is a number below 256; encode writes each byte as
\* two lower-case digits of HexAlphabet, decode reads digits of either case.
RECURSIVE hex_encode(_)
hex_encode(b) ==
  IF b = <<>> THEN <<>>
  ELSE <<HexAlphabet[(b[1] \div 16) + 1], HexAlphabet[(b[1] % 16) + 1]>> \o hex_encode(Tail(b))

\* The value of a hex digit; 16 for a character that is none.
HexValue(c) ==
  CASE c \in Digits -> DigitValue(c)
    [] c \in {"a", "A"} -> 10 [] c \in {"b", "B"} -> 11 [] c \in {"c", "C"} -> 12
    [] c \in {"d", "D"} -> 13 [] c \in {"e", "E"} -> 14 [] c \in {"f", "F"} -> 15
    [] OTHER -> 16

RECURSIVE DecodePairs(_)
DecodePairs(s) ==
  IF Len(s) < 2 THEN <<>>
  ELSE <<16 * HexValue(s[1]) + HexValue(s[2])>> \o DecodePairs(Drop(s, 2))

\* A faulty variant of decode: a last digit without a partner is ignored.
hex_decode_truncating(s) ==
  IF \E k \in 1..Len(s) : HexValue(s[k]) = 16 THEN Err("InvalidHexCharacter")
  ELSE Ok(DecodePairs(s))

\* hex::decode: an odd number of digits is OddLength, a character that is
\* no hex digit InvalidHexCharacter.
hex_decode(s) ==
  IF Len(s) % 2 = 1 THEN Err("OddLength")
  ELSE IF \E k \in 1..Len(s) : HexValue(s[k]) = 16 THEN Err("InvalidHexCharacter")
  ELSE Ok(DecodePairs(s))

\* hls_parser/src/models.rs:96-98, HexSequence::bytes.
bytes(s) == hex_decode(s)

\* models::Node.
Node(k, v) == [k |-> k, v |-> v]

RECURSIVE AttributeNodes(_)
AttributeNodes(as) ==
  IF as = <<>> THEN <<>>
  ELSE <<Node("AttributeName", as[1].name), Node("AttributeValue", as[1].value)>>
       \o AttributeNodes(Tail(as))

\* A faulty variant of the nodes of a tag's argument: an attribute list is
\* not closed.
ArgNodesUnclosed(args) ==
  IF args = None THEN <<>>
  ELSE CASE args[1].k = "Attributes" ->
              <<Node("AttributesStart", <<>>)>> \o AttributeNodes(args[1].v)
         [] args[1].k = "String" -> <<Node("String", args[1].v)>>
         [] args[1].k = "Integer" -> <<Node("Integer", args[1].v)>>
         [] args[1].k = "Float" -> <<Node("Float", args[1].v)>>

ArgNodes(args) ==
  IF args = None THEN <<>>
  ELSE CASE args[1].k = "Attributes" ->
              <<Node("AttributesStart", <<>>)>> \o AttributeNodes(args[1].v)
              \o <<Node("AttributesEnd", <<>>)>>
         [] args[1].k = "String" -> <<Node("String", args[1].v)>>
         [] args[1].k = "Integer" -> <<Node("Integer", args[1].v)>>
         [] args[1].k = "Float" -> <<Node("Float", args[1].v)>>  \* read at de.rs:83

RECURSIVE LineNodes(_)
LineNodes(ls) ==
  IF ls = <<>> THEN <<>>
  ELSE (IF ls[1].t = "Tag"
        THEN <<Node("TagStart", <<>>), Node("TagName", ls[1].name)>> \o ArgNodes(ls[1].args)
        ELSE <<Node("Uri", ls[1].u)>>)
       \o LineNodes(Tail(ls))

\* hls_parser/src/models.rs:49-85, Manifest::nodes.
nodes(manifest) ==
  <<Node("ManifestStart", <<>>)>> \o LineNodes(manifest.lines) \o <<Node("ManifestEnd", <<>>)>>

\* hls/src/de.rs:33-43, Deserializer::from_str, given what Manifest::parse
\* answered.
DeserializerFromStr(parsed) ==
  IF ~parsed.ok THEN Err("Syntax")
  ELSE Ok([nodes |-> nodes(parsed.v), context |-> "Manifest", next_index |-> 0])

\* ----------------------------------------------------------- hls/src/de.rs

\* de.rs:45-47, Deserializer::peek, and 49-56, Deserializer::next, which is
\* called where peek has answered Ok.
peek(de) ==
  IF de.next_index < Len(de.nodes) THEN Ok(de.nodes[de.next_index + 1])
  ELSE Err("UnexpectedEof")

de_next(de) == [de EXCEPT !.next_index = @ + 1]

\* A faulty variant of next: the index moves also where there is no node.
next_node_unchecked(de) == [r |-> Ok(<<>>), de |-> de_next(de)]

\* de.rs:49-56, Deserializer::next, wherever it is called: the result and
\* the Deserializer after the call.
next_node(de) ==
  IF de.next_index < Len(de.nodes) THEN [r |-> Ok(<<>>), de |-> de_next(de)]
  ELSE [r |-> Err("UnexpectedEof"), de |-> de]

\* serde_hls/src/lib.rs:71-78, Deserializer::take1: next, with the node.
take1(de) ==
  IF de.next_index < Len(de.nodes)
  THEN [r |-> Ok(de.nodes[de.next_index + 1]), de |-> de_next(de)]
  ELSE [r |-> Err("UnexpectedEof"), de |-> de]

\* What a call into the Deserializer gives its visitor: a value, an enum
\* access handed to visit_enum, a map access handed to visit_map, an error,
\* a panic.
Outcome(de, t, v) == [de |-> de, t |-> t, v |-> v]

\* res = visitor.visit_x(..)?, then the Deserializer moves from de0 to de1.
Visited(r, de0, de1) ==
  IF r.ok THEN Outcome(de1, "value", r.v) ELSE Outcome(de0, "err", r.e)

\* manifest.rs:79-95: the variants of Tag under SCREAMING-KEBAB-CASE, with
\* what each carries.
TagVariants ==
  {[name |-> <<"M", "3", "U">>, variant |-> "M3u", carries |-> "unit"],
   [name |-> <<"I", "N", "D", "E", "P", "E", "N", "D", "E", "N", "T", "-",
                "S", "E", "G", "M", "E", "N", "T", "S">>,
    variant |-> "IndependentSegments", carries |-> "unit"],
   [name |-> <<"I", "N", "F">>, variant |-> "Inf", carries |-> "f64"],
   [name |-> <<"K", "E", "Y">>, variant |-> "Key", carries |-> "struct"],
   [name |-> <<"M", "E", "D", "I", "A">>, variant |-> "Media", carries |-> "struct"],
   [name |-> <<"M", "E", "D", "I", "A", "-", "S", "E", "Q", "U", "E", "N", "C", "E">>,
    variant |-> "MediaSequence", carries |-> "u64"],
   [name |-> <<"T", "A", "R", "G", "E", "T", "D", "U", "R", "A", "T", "I", "O", "N">>,
    variant |-> "Targetduration", carries |-> "u64"],
   [name |-> <<"V", "E", "R", "S", "I", "O", "N">>, variant |-> "Version", carries |-> "u64"],
   [name |-> <<"P", "L", "A", "Y", "L", "I", "S", "T", "-", "T", "Y", "P", "E">>,
    variant |-> "PlaylistType", carries |-> "enum"],
   [name |-> <<"P", "R", "O", "G", "R", "A", "M", "-", "D", "A", "T", "E", "-",
                "T", "I", "M", "E">>,
    variant |-> "ProgramDateTime", carries |-> "String"],
   [name |-> <<"S", "T", "R", "E", "A", "M", "-", "I", "N", "F">>,
    variant |-> "StreamInf", carries |-> "struct"]}

\* manifest.rs:93-94: #[serde(other)] Unknown takes every other name.
TagField(s) ==
  IF \E t \in TagVariants : t.name = s THEN (CHOOSE t \in TagVariants : t.name = s).variant
  ELSE "Unknown"

Carries(variant) ==
  IF variant = "Unknown" THEN "unit"
  ELSE (CHOOSE t \in TagVariants : t.variant = variant).carries

\* manifest.rs:97-101: the variants of Line, by name.
LineField(s) ==
  IF s = <<"T", "a", "g">> THEN Ok("Tag")
  ELSE IF s = <<"U", "r", "i">> THEN Ok("Uri")
  ELSE Err("Message")

\* manifest.rs:26-77: the fields of the attribute structs under
\* SCREAMING-KEBAB-CASE, each with its type, whether it is an Option and
\* whether it is decoded with serde_bytes.
KeyAttributes ==
  {[name |-> <<"M", "E", "T", "H", "O", "D">>, field |-> "method", ty |-> "EncryptionMethod",
    option |-> FALSE, with |-> FALSE],
   [name |-> <<"U", "R", "I">>, field |-> "uri", ty |-> "String", option |-> TRUE,
    with |-> FALSE],
   [name |-> <<"I", "V">>, field |-> "iv", ty |-> "ByteBuf", option |-> TRUE, with |-> TRUE],
   [name |-> <<"K", "E", "Y", "F", "O", "R", "M", "A", "T">>, field |-> "keyformat",
    ty |-> "String", option |-> TRUE, with |-> FALSE],
   [name |-> <<"K", "E", "Y", "F", "O", "R", "M", "A", "T", "V", "E", "R", "S", "I", "O", "N",
    "S">>, field |-> "keyformatversions", ty |-> "String", option |-> TRUE, with |-> FALSE]}

StreamInfAttributes ==
  {[name |-> <<"B", "A", "N", "D", "W", "I", "D", "T", "H">>, field |-> "bandwidth",
    ty |-> "u64", option |-> FALSE, with |-> FALSE],
   [name |-> <<"A", "V", "E", "R", "A", "G", "E", "-", "B", "A", "N", "D", "W", "I", "D", "T",
    "H">>, field |-> "average_bandwidth", ty |-> "u64", option |-> TRUE, with |-> FALSE],
   [name |-> <<"C", "O", "D", "E", "C", "S">>, field |-> "codecs", ty |-> "String",
    option |-> TRUE, with |-> FALSE],
   [name |-> <<"R", "E", "S", "O", "L", "U", "T", "I", "O", "N">>, field |-> "resolution",
    ty |-> "String", option |-> TRUE, with |-> FALSE],
   [name |-> <<"F", "R", "A", "M", "E", "-", "R", "A", "T", "E">>, field |-> "frame_rate",
    ty |-> "f64", option |-> TRUE, with |-> FALSE],
   [name |-> <<"H", "D", "C", "P", "-", "L", "E", "V", "E", "L">>, field |-> "hdcp_level",
    ty |-> "HdcpLevel", option |-> TRUE, with |-> FALSE],
   [name |-> <<"A", "U", "D", "I", "O">>, field |-> "audio", ty |-> "String", option |-> TRUE,
    with |-> FALSE],
   [name |-> <<"V", "I", "D", "E", "O">>, field |-> "video", ty |-> "String", option |-> TRUE,
    with |-> FALSE],
   [name |-> <<"S", "U", "B", "T", "I", "T", "L", "E", "S">>, field |-> "subtitles",
    ty |-> "String", option |-> TRUE, with |-> FALSE],
   [name |-> <<"C", "L", "O", "S", "E", "D", "-", "C", "A", "P", "T", "I", "O", "N", "S">>,
    field |-> "closed_captions", ty |-> "String", option |-> TRUE, with |-> FALSE]}

MediaAttributes ==
  {[name |-> <<"T", "Y", "P", "E">>, field |-> "media_type", ty |-> "MediaType",
    option |-> FALSE, with |-> FALSE],
   [name |-> <<"U", "R", "I">>, field |-> "uri", ty |-> "String", option |-> TRUE,
    with |-> FALSE],
   [name |-> <<"G", "R", "O", "U", "P", "-", "I", "D">>, field |-> "group_id", ty |-> "String",
    option |-> FALSE, with |-> FALSE],
   [name |-> <<"L", "A", "N", "G", "U", "A", "G", "E">>, field |-> "language", ty |-> "String",
    option |-> TRUE, with |-> FALSE],
   [name |-> <<"A", "S", "S", "O", "C", "-", "L", "A", "N", "G", "U", "A", "G", "E">>,
    field |-> "assoc_language", ty |-> "String", option |-> TRUE, with |-> FALSE],
   [name |-> <<"N", "A", "M", "E">>, field |-> "name", ty |-> "String", option |-> FALSE,
    with |-> FALSE],
   [name |-> <<"D", "E", "F", "A", "U", "L", "T">>, field |-> "default", ty |-> "bool",
    option |-> TRUE, with |-> FALSE],
   [name |-> <<"A", "U", "T", "O", "S", "E", "L", "E", "C", "T">>, field |-> "autoselect",
    ty |-> "bool", option |-> TRUE, with |-> FALSE],
   [name |-> <<"F", "O", "R", "C", "E", "D">>, field |-> "forced", ty |-> "bool",
    option |-> TRUE, with |-> FALSE],
   [name |-> <<"I", "N", "S", "T", "R", "E", "A", "M", "-", "I", "D">>,
    field |-> "instream_id", ty |-> "String", option |-> TRUE, with |-> FALSE],
   [name |-> <<"C", "H", "A", "R", "A", "C", "T", "E", "R", "I", "S", "T", "I", "C", "S">>,
    field |-> "characteristics", ty |-> "String", option |-> TRUE, with |-> FALSE],
   [name |-> <<"C", "H", "A", "N", "N", "E", "L", "S">>, field |-> "channels", ty |-> "String",
    option |-> TRUE, with |-> FALSE]}

Structs == {"KeyAttributes", "StreamInfAttributes", "MediaAttributes"}

StructFields(struct) ==
  CASE struct = "KeyAttributes" -> KeyAttributes
    [] struct = "StreamInfAttributes" -> StreamInfAttributes
    [] struct = "MediaAttributes" -> MediaAttributes

\* manifest.rs:85, 86, 92: the struct a variant of Tag carries.
StructOf(variant) ==
  CASE variant = "Key" -> "KeyAttributes"
    [] variant = "Media" -> "MediaAttributes"
    [] variant = "StreamInf" -> "StreamInfAttributes"

\* manifest.rs:3-24, 59-66: the variants of the enums of attribute values.
MediaType ==
  {[name |-> <<"A", "U", "D", "I", "O">>, variant |-> "Audio"],
   [name |-> <<"V", "I", "D", "E", "O">>, variant |-> "Video"],
   [name |-> <<"S", "U", "B", "T", "I", "T", "L", "E", "S">>, variant |-> "Subtitles"],
   [name |-> <<"C", "L", "O", "S", "E", "D", "-", "C", "A", "P", "T", "I", "O", "N", "S">>, variant |-> "ClosedCaptions"]}

HdcpLevel ==
  {[name |-> <<"N", "O", "N", "E">>, variant |-> "None"],
   [name |-> <<"T", "Y", "P", "E", "0">>, variant |-> "Type0"]}

EncryptionMethod ==
  {[name |-> <<"A", "E", "S", "-", "1", "2", "8">>, variant |-> "Aes128"],
   [name |-> <<"N", "O", "N", "E">>, variant |-> "None"],
   [name |-> <<"S", "A", "M", "P", "L", "E", "-", "A", "E", "S">>, variant |-> "SampleAes"]}

PlaylistType ==
  {[name |-> <<"E", "V", "E", "N", "T">>, variant |-> "Event"],
   [name |-> <<"V", "O", "D">>, variant |-> "Vod"]}

Enums == {"MediaType", "PlaylistType", "HdcpLevel", "EncryptionMethod"}

EnumVariants(enum) ==
  CASE enum = "MediaType" -> MediaType
    [] enum = "PlaylistType" -> PlaylistType
    [] enum = "HdcpLevel" -> HdcpLevel
    [] enum = "EncryptionMethod" -> EncryptionMethod

\* The derived visitor of a struct's field names: a name the struct does not
\* have is __ignore.
StructField(struct, s) ==
  IF \E f \in StructFields(struct) : f.name = s
  THEN (CHOOSE f \in StructFields(struct) : f.name = s).field
  ELSE "__ignore"

\* The derived visitor of an enum's variant names: a name the enum does not
\* have is serde's unknown_variant error.
EnumField(enum, s) ==
  IF \E t \in EnumVariants(enum) : t.name = s
  THEN Ok((CHOOSE t \in EnumVariants(enum) : t.name = s).variant)
  ELSE Err("Message")

\* utf-8 as far as the bytes of the model go: a byte below 128 is a
\* character, and the other bytes of the model (0xAB, 0xFF) begin none.
from_utf8(b) ==
  IF \A j \in 1..Len(b) : b[j] < 128 THEN Ok(b) ELSE Err("Message")

\* The visitors serde and its derive give the schema: the enum visitors of
\* Line, Tag and the enums of attribute values, the map visitors of the
\* attribute structs, the visitors of the names of variants and fields
\* (__Field), those of u64, f64, bool and String, serde_bytes' ByteBuf and
\* serde's IgnoredAny, which takes the value of a field the struct does not
\* have.  A visit the visitor does not define is serde's invalid_type error,
\* which de::Error::custom makes Error::Message.
visit_str(visitor, s) ==
  CASE visitor = "Line::__Field" -> LineField(s)
    [] visitor = "Tag::__Field" -> Ok(TagField(s))
    [] visitor = "KeyAttributes::__Field" -> Ok(StructField("KeyAttributes", s))
    [] visitor = "StreamInfAttributes::__Field" -> Ok(StructField("StreamInfAttributes", s))
    [] visitor = "MediaAttributes::__Field" -> Ok(StructField("MediaAttributes", s))
    [] visitor = "MediaType::__Field" -> EnumField("MediaType", s)
    [] visitor = "PlaylistType::__Field" -> EnumField("PlaylistType", s)
    [] visitor = "HdcpLevel::__Field" -> EnumField("HdcpLevel", s)
    [] visitor = "EncryptionMethod::__Field" -> EnumField("EncryptionMethod", s)
    [] visitor \in {"String", "ByteBuf", "IgnoredAny"} -> Ok(s)
    [] OTHER -> Err("Message")

visit_u64(visitor, i) ==
  IF visitor \in {"u64", "f64", "IgnoredAny"} THEN Ok(i) ELSE Err("Message")

visit_f64(visitor, f) ==
  IF visitor \in {"f64", "IgnoredAny"} THEN Ok(f) ELSE Err("Message")

visit_bool(visitor, b) ==
  IF visitor \in {"bool", "IgnoredAny"} THEN Ok(b) ELSE Err("Message")

\* ByteBuf is the visitor serde_bytes gives a Vec<u8> field (manifest.rs:73);
\* String's visitor takes bytes that are utf-8.
visit_byte_buf(visitor, b) ==
  CASE visitor \in {"ByteBuf", "IgnoredAny"} -> Ok(b)
    [] visitor = "String" -> from_utf8(b)
    [] OTHER -> Err("Message")

visit_string(visitor, s) ==
  IF visitor \in {"String", "ByteBuf", "IgnoredAny"} THEN Ok(s) ELSE Err("Message")

\* A visit_enum or visit_map of IgnoredAny is not modelled: the Deserializer
\* calls neither where a value is ignored (de.rs:123-165).
visit_enum(visitor, access, de) ==
  IF visitor \in {"Line", "Tag"} \cup Enums THEN Outcome(de, "enum", access)
  ELSE Outcome(de, "err", "Message")

visit_map(visitor, de) ==
  IF visitor \in Structs THEN Outcome(de, "map", visitor)
  ELSE Outcome(de, "err", "Message")

\* A faulty variant of the choice: the match of serde_hls/src/lib.rs:109-114,
\* which has no arm for a Float.
ContextAfterNoFloat(node) ==
  CASE node.k = "Integer" -> "IntAttribute"
    [] node.k = "String" -> "StringAttribute"
    [] node.k = "AttributesStart" -> "Attributes"
    [] OTHER -> "Manifest"

\* de.rs:81-87: the context after a tag's name, by the node that follows.
ContextAfter(node) ==
  CASE node.k = "Integer" -> "IntAttribute"
    [] node.k = "Float" -> "FloatAttribute"
    [] node.k = "String" -> "StringAttribute"
    [] node.k = "AttributesStart" -> "Attributes"
    [] OTHER -> "Manifest"

WithContext(de, context) == [de EXCEPT !.context = context]

\* de.rs:78-89: the name is visited, the Deserializer moves on and sets the
\* context by the node after the name; the visitor's value is the answer.
VisitedTagName(r, de) ==
  IF ~r.ok THEN Outcome(de, "err", r.e)
  ELSE IF ~peek(de_next(de)).ok THEN Outcome(de_next(de), "err", "UnexpectedEof")
  ELSE Outcome(WithContext(de_next(de), ContextAfter(peek(de_next(de)).v)), "value", r.v)

\* de.rs:68-188: the arms of deserialize_any's match on (context, node).
Match(de, visitor, context, node) ==
  CASE context = "Manifest" /\ node.k = "TagStart" -> visit_enum(visitor, "TagLine", de)
    [] context = "Tag" /\ node.k = "TagStart" ->
         Visited(visit_str(visitor, <<"T", "a", "g">>), de_next(de), de_next(de))
    [] context = "Tag" /\ node.k = "TagName" ->
         visit_enum(visitor, "TagName", WithContext(de, "TagName"))
    [] context = "TagName" /\ node.k = "TagName" ->
         VisitedTagName(visit_str(visitor, node.v), de)
    [] context = "IntAttribute" /\ node.k = "Integer" ->
         Visited(visit_u64(visitor, node.v), de, de_next(WithContext(de, "Manifest")))
    [] context = "FloatAttribute" /\ node.k = "Float" ->
         Visited(visit_f64(visitor, node.v), de, de_next(WithContext(de, "Manifest")))
    [] context \in {"StringAttribute", "EnumAttribute"} /\ node.k = "String" ->
         Visited(visit_str(visitor, node.v), de, de_next(WithContext(de, "Manifest")))
    [] context = "Attributes" /\ node.k = "AttributesStart" -> visit_map(visitor, de_next(de))
    [] context = "Attributes" /\ node.k = "AttributeValue" /\ node.v.k = "Hex" ->
         IF bytes(node.v.v).ok
         THEN Visited(visit_byte_buf(visitor, bytes(node.v.v).v), de, de_next(de))
         ELSE Outcome(de, "err", "InvalidHex")
    [] context = "Attributes" /\ node.k = "AttributeValue" /\ node.v.k = "Resolution" ->
         Visited(visit_string(visitor, to_string(NumeralValue(node.v.width)) \o <<"x">>
                                       \o to_string(NumeralValue(node.v.height))),
                 de, de_next(de))
    [] context = "AttributeName" /\ node.k = "AttributeName" ->
         Visited(visit_str(visitor, node.v), de, de_next(de))
    [] context = "Attributes" /\ node.k = "AttributeValue" /\ node.v.k = "Integer" ->
         Visited(visit_u64(visitor, node.v.v), de, de_next(de))
    [] context = "Attributes" /\ node.k = "AttributeValue" /\ node.v.k = "String" ->
         Visited(visit_str(visitor, node.v.v), de, de_next(de))
    [] context = "Attributes" /\ node.k = "AttributeValue" /\ node.v.k = "Keyword" ->
         IF node.v.v = <<"Y", "E", "S">>
           THEN Visited(visit_bool(visitor, TRUE), de_next(de), de_next(de))
         ELSE IF node.v.v = <<"N", "O">>
           THEN Visited(visit_bool(visitor, FALSE), de_next(de), de_next(de))
         ELSE Visited(visit_str(visitor, node.v.v), de_next(de), de_next(de))
    [] context = "Attributes" /\ node.k = "AttributeValue" /\ node.v.k = "Float" ->
         Visited(visit_f64(visitor, node.v.v), de, de_next(de))
    [] context = "EnumAttribute" /\ node.k = "AttributeValue" ->
         IF node.v.k = "Keyword" THEN Visited(visit_str(visitor, node.v.v), de, de_next(de))
         ELSE Outcome(de, "panic", "unreachable")
    [] context = "Manifest" /\ node.k = "Uri" -> visit_enum(visitor, "UriLine", de)
    [] context = "Tag" /\ node.k = "Uri" ->
         Visited(visit_str(visitor, <<"U", "r", "i">>), de, WithContext(de, "Uri"))
    [] context = "Uri" /\ node.k = "Uri" ->
         Visited(visit_str(visitor, node.v), de, WithContext(de_next(de), "Manifest"))
    [] OTHER -> Outcome(de, "panic", "unreachable")

\* de.rs:62-189.
deserialize_any(de, visitor) ==
  IF peek(de).ok THEN Match(de, visitor, de.context, peek(de).v)
  ELSE Outcome(de, "err", "UnexpectedEof")

\* de.rs:191-204.
deserialize_u64(de, visitor) ==
  IF ~peek(de).ok THEN Outcome(de, "err", "UnexpectedEof")
  ELSE IF peek(de).v.k = "AttributeValue" /\ peek(de).v.v.k = "Integer"
       THEN Visited(visit_u64(visitor, peek(de).v.v.v), de, de_next(de))
  ELSE IF peek(de).v.k = "Integer" THEN deserialize_any(de, visitor)
  ELSE Outcome(de, "panic", "todo")

\* de.rs:206-223.
deserialize_enum(de, visitor) ==
  IF ~peek(de).ok THEN Outcome(de, "err", "UnexpectedEof")
  ELSE IF \/ peek(de).v.k = "String"
          \/ peek(de).v.k = "AttributeValue" /\ peek(de).v.v.k = "Keyword"
       THEN visit_enum(visitor, "AttrEnum", WithContext(de, "EnumAttribute"))
  ELSE deserialize_any(de, visitor)

\* de.rs:237-247.
deserialize_seq(de) ==
  IF ~peek(de).ok THEN Outcome(de, "err", "UnexpectedEof")
  ELSE IF peek(de).v.k = "ManifestStart" THEN Outcome(de_next(de), "seq", "Lines")
  ELSE Outcome(de, "panic", "unreachable")

\* de.rs:269-278, Lines::next_element_seed: None at ManifestEnd, or the
\* seed's deserialize.
next_element_seed(de) ==
  IF ~peek(de).ok THEN Outcome(de, "err", "UnexpectedEof")
  ELSE IF peek(de).v.k = "ManifestEnd" THEN Outcome(de, "value", None)
  ELSE Outcome(de, "seed", "Line")

\* de.rs:295-302, 348-355, 401-408, 508-515: each access sets its context
\* and asks the variant's name of deserialize_any.
AccessContext(access) ==
  CASE access = "TagLine" -> "Tag"
    [] access = "TagName" -> "TagName"
    [] access = "AttrEnum" -> "EnumAttribute"
    [] access = "UriLine" -> "Tag"

\* The derived visit_enum asks the variant of the enum's __Field.
FieldVisitor(visitor) == visitor \o "::__Field"

variant_seed(access, de, visitor) ==
  deserialize_any(WithContext(de, AccessContext(access)), FieldVisitor(visitor))

\* de.rs:308-310, 368-370, 422-425, 521-523.
unit_variant(access, de) ==
  IF access \in {"TagName", "AttrEnum"} THEN Outcome(de, "value", <<>>)
  ELSE Outcome(de, "panic", "todo")

\* The derived visit_enum of an enum of attribute values, whose variants
\* carry nothing: the variant's name, then unit_variant.  o is what
\* deserialize_enum answered.
EnumVisited(o, visitor) ==
  IF o.t = "enum" THEN variant_seed(o.v, o.de, visitor) ELSE o

\* T::deserialize for the type of a field: u64 asks deserialize_u64, an enum
\* deserialize_enum, and f64, bool, String, ByteBuf and IgnoredAny one of
\* the calls de.rs:249-253 forwards to deserialize_any.
deserialize(de, ty) ==
  CASE ty = "u64" -> deserialize_u64(de, ty)
    [] ty \in Enums -> EnumVisited(deserialize_enum(de, ty), ty)
    [] ty \in {"f64", "bool", "String", "ByteBuf", "IgnoredAny"} -> deserialize_any(de, ty)

\* visit_some(self) of Option's visitor: Some of what T::deserialize gives.
visit_some(o) == IF o.t = "value" THEN [o EXCEPT !.v = Some(@)] ELSE o

\* de.rs:225-235.
deserialize_option(de, ty) ==
  IF ~peek(de).ok THEN Outcome(de, "err", "UnexpectedEof")
  ELSE IF peek(de).v.k = "AttributeValue" THEN visit_some(deserialize(de, ty))
  ELSE Outcome(de, "value", None)

\* The seed of a field's value: IgnoredAny for a name the struct does not
\* have, Option<T> or T for a field.
FieldOf(struct, key) == CHOOSE f \in StructFields(struct) : f.field = key

ValueSeed(de, struct, key) ==
  IF key = "__ignore" THEN deserialize(de, "IgnoredAny")
  ELSE IF FieldOf(struct, key).option THEN deserialize_option(de, FieldOf(struct, key).ty)
  ELSE deserialize(de, FieldOf(struct, key).ty)

\* de.rs:474-479: res = seed.deserialize(..).map(Some), and the context is
\* Attributes whatever res is.
KeyDeserialized(o) ==
  IF o.t = "panic" THEN o
  ELSE [o EXCEPT !.de = WithContext(@, "Attributes"),
                 !.v = IF o.t = "value" THEN Some(@) ELSE @]

\* A faulty variant of next_key_seed: the AttributesEnd is left in the
\* stream.
next_key_seed_end_kept(de, visitor) ==
  IF ~peek(de).ok THEN Outcome(de, "err", "UnexpectedEof")
  ELSE IF peek(de).v.k = "AttributesEnd"
       THEN Outcome(WithContext(de, "Manifest"), "value", None)
  ELSE KeyDeserialized(deserialize_any(WithContext(de, "AttributeName"), visitor))

\* de.rs:463-481, Attributes::next_key_seed: None at AttributesEnd, which is
\* consumed, or the seed's deserialize under the context AttributeName.
next_key_seed(de, visitor) ==
  IF ~peek(de).ok THEN Outcome(de, "err", "UnexpectedEof")
  ELSE IF peek(de).v.k = "AttributesEnd"
       THEN Outcome(WithContext(de_next(de), "Manifest"), "value", None)
  ELSE KeyDeserialized(deserialize_any(WithContext(de, "AttributeName"), visitor))

\* de.rs:483-491, Attributes::next_value_seed, given what the seed's
\* deserialize answered.
next_value_seed(o) ==
  IF o.t = "value" THEN [o EXCEPT !.de = WithContext(@, "AttributeName")] ELSE o

\* The end of the derived visit_map: a field that is no Option, or is
\* decoded with serde_bytes, and was not in the map is serde's
\* missing_field error; an Option that was not in the map is None.
MissingFields(struct, map) ==
  {f \in StructFields(struct) : f.field \notin DOMAIN map /\ (~f.option \/ f.with)}

StructValue(struct, map) ==
  [key \in {f.field : f \in StructFields(struct)} |->
     IF key \in DOMAIN map THEN map[key] ELSE None]

\* A decoded hls::Line (manifest.rs:97-101); a unit variant of Tag carries
\* None.
DecodedTag(variant, carried) == [t |-> "Tag", variant |-> variant, carried |-> carried]
DecodedUri(u) == [t |-> "Uri", uri |-> u]

\* ------------------------------------------------ ManifestWatcher::update

\* Faulty variants of the test of manifest_watcher.rs:48: an off-by-one
\* comparison, no comparison at all, and a comparison that starts one late.
ShouldEmitGe(i, count) == i >= count
ShouldEmitAlways(i, count) == TRUE
ShouldEmitLate(i, count) == i > count + 1

\* manifest_watcher.rs:48, the test that lets a Uri line emit.
ShouldEmit(i, count) == i > count

\* The watcher's callback.  driver = TRUE is main's closure (main.rs:58-68):
\* resolve the event's uri, unwrap, push; an unresolvable uri panics main.
\* driver = FALSE is a callback that only receives the event.
FileTypeOf(ev) == IF ev.kind = "Key" THEN "Key" ELSE "MediaSegment"

data_added(st, ev, driver) ==
  LET got == [st EXCEPT !.events = Append(@, ev)]
      res == parse_path_from_url(BaseUrl, ev.uri, FileTypeOf(ev))
  IN IF ~driver THEN got
     ELSE IF res.ok THEN [got EXCEPT !.queue = Append(@, res.v), !.pushed = Append(@, res.v)]
     ELSE [got EXCEPT !.panicked = TRUE]

\* A faulty variant of the Key arm: a Key whose uri this update has already
\* emitted is coalesced with the earlier one.
KeyArmCoalesced(st, line, at, driver) ==
  IF \E j \in 1..Len(st.events) :
       st.events[j].kind = "Key" /\ st.events[j].uri = unwrap_or_default(line.attrs.uri)
  THEN st
  ELSE data_added(st, FileAddKey(unwrap_or_default(line.attrs.uri), at), driver)

\* manifest_watcher.rs:41-45, the Key arm of the match: every Key line calls
\* the callback with the tag's uri, or with the empty string.
KeyArm(st, line, at, driver) ==
  data_added(st, FileAddKey(unwrap_or_default(line.attrs.uri), at), driver)

\* A faulty variant of the iteration: the manifest walked from its end.
IterIndexRev(new_manifest, n) == Len(new_manifest) + 1 - n

\* manifest_watcher.rs:39, `for line in &new_manifest`: the index of the line
\* the n-th turn of the loop looks at.
IterIndex(new_manifest, n) == n

\* The for loop of update (manifest_watcher.rs:37-57) from its n-th turn on,
\* with the loop counter i; a panic in the callback unwinds out of the loop.
RECURSIVE UpdateLoop(_, _, _, _, _)
UpdateLoop(new_manifest, n, i, st, driver) ==
  IF n > Len(new_manifest) \/ st.panicked THEN st
  ELSE LET at == IterIndex(new_manifest, n)
           line == new_manifest[at]
       IN
    CASE line.t = "Key" ->
           UpdateLoop(new_manifest, n + 1, i, KeyArm(st, line, at, driver), driver)
      [] line.t = "Uri" ->
           IF ShouldEmit(i + 1, st.count)
           THEN UpdateLoop(new_manifest, n + 1, i + 1,
                           data_added([st EXCEPT !.count = @ + 1],
                                      FileAddSegment(line.u, at, i + 1), driver),
                           driver)
           ELSE UpdateLoop(new_manifest, n + 1, i + 1, st, driver)
      [] OTHER -> UpdateLoop(new_manifest, n + 1, i, st, driver)

\* ---------------------------------------------------------------- state

VARIABLES
  segment_count,  \* ManifestWatcher.segment_count
  lines,          \* ManifestWatcher.lines: the manifest of the last update
  emitted,        \* history: every FileAdd::Segment of the watcher's life
  last,           \* history: the last update's events, the count before it,
                  \* and the uris of the Key events of the updates before it
  max_uris,       \* history: the largest number of Uri lines of an update
  ctrl,           \* main's position: [pc, h]
  queue,          \* the crossbeam deque `worker` (FIFO)
  pushed,         \* history: every work item pushed, in push order
  is_done,        \* the AtomicBool stop flag
  pool,           \* which worker loop the tasks run
  wpc,            \* each worker task's position
  witem,          \* each worker task's stolen work item
  mutex,          \* owner of the MKDIR_CACHE mutex
  MKDIR_CACHE,    \* fs::mkdirp's cache of created directories
  dir_calls,      \* history: every std::fs::create_dir_all call
  written,        \* history: every path std::fs::write wrote
  worker_count,   \* the number of worker tasks spawned
  fetched,        \* history: the work items in the order the tasks took them
                  \* up (the reqwest::get of downloader.rs:45, the log of
                  \* main.rs:51)
  call            \* the call of a function exercised alone: input and result

watcherVars == <<segment_count, lines, emitted, last, max_uris>>
driverVars == <<ctrl, queue, pushed, is_done>>
configVars == <<pool, worker_count, call>>
workerVars == <<configVars, wpc, witem, mutex, MKDIR_CACHE, dir_calls, written, fetched>>
vars == <<watcherVars, driverVars, workerVars>>

\* The history of create_dir_all calls: for each path, how many calls were
\* made (n) and how many of them succeeded (ok).
NoCalls == [p \in {} |-> [n |-> 0, ok |-> 0]]

CallsOf(calls, path) == IF path \in DOMAIN calls THEN calls[path] ELSE [n |-> 0, ok |-> 0]

Called(calls, path, ok) ==
  [p \in DOMAIN calls \cup {path} |->
     IF p = path
     THEN [n |-> CallsOf(calls, p).n + 1, ok |-> CallsOf(calls, p).ok + (IF ok THEN 1 ELSE 0)]
     ELSE calls[p]]

\* ----------------------------------------------------------------- inputs

\* The lines update is called with when the watcher is exercised alone.
WatchLines ==
  {LineUri("a.ts"), LineUri("d/b.ts"), LineKey(Some("k1")), LineKey(None), LineTag("M3u")}

WatchManifests == SeqUpTo(WatchLines, MaxLines)

\* The segments of a live stream, oldest first; a live playlist is a window.
Stream == <<"s1.ts", "s2.ts", "s3.ts", "s4.ts", "s5.ts", "s6.ts">>

Window(lo, hi) == [k \in 1..(hi - lo + 1) |-> LineUri(Stream[lo + k - 1])]

\* ------------------------------------------------------------ the watcher

InitWatcher ==
  /\ segment_count = 0
  /\ lines = <<>>
  /\ emitted = <<>>
  /\ last = [events |-> <<>>, before |-> 0, keys_before |-> {}]
  /\ max_uris = 0

LoopStart(q) ==
  [count |-> segment_count, events |-> <<>>, queue |-> q, pushed |-> <<>>, panicked |-> FALSE]

\* The uris the events of one kind carry.
EventUris(evs, kind) == {evs[j].uri : j \in {k \in 1..Len(evs) : evs[k].kind = kind}}

\* The uri and position of each event.
Emitted(evs) == [j \in 1..Len(evs) |-> [uri |-> evs[j].uri, pos |-> evs[j].pos]]

\* A faulty variant of update: the counter is set to the number of Uri lines
\* of the manifest.
UpdateEffectRecount(new_manifest, st) ==
  /\ segment_count' = Len(uris(new_manifest))
  /\ lines' = IF st.panicked THEN lines ELSE new_manifest
  /\ emitted' = emitted \o Emitted(SelectEvents(st.events, "Segment"))
  /\ last' = [events |-> st.events, before |-> segment_count,
              keys_before |-> last.keys_before \cup EventUris(last.events, "Key")]
  /\ max_uris' = IF Len(uris(new_manifest)) > max_uris THEN Len(uris(new_manifest)) ELSE max_uris

\* What update leaves in the watcher and in the history variables.
UpdateEffect(new_manifest, st) ==
  /\ segment_count' = st.count
  /\ lines' = IF st.panicked THEN lines ELSE new_manifest
  /\ emitted' = emitted \o Emitted(SelectEvents(st.events, "Segment"))
  /\ last' = [events |-> st.events, before |-> segment_count,
              keys_before |-> last.keys_before \cup EventUris(last.events, "Key")]
  /\ max_uris' = IF Len(uris(new_manifest)) > max_uris THEN Len(uris(new_manifest)) ELSE max_uris

\* ManifestWatcher::update(new_manifest) with a callback that only receives.
Update(new_manifest) ==
  /\ ctrl.pc = "harness"
  /\ UpdateEffect(new_manifest, UpdateLoop(new_manifest, 1, 0, LoopStart(<<>>), FALSE))
  /\ UNCHANGED <<driverVars, workerVars>>

\* ------------------------------------------------------------- the driver

Workers == 1..WorkerCount
NoOwner == 0

\* No function is being exercised alone.
NoCall == [f |-> "none"]
NoItem == <<>>

\* The lines of the manifest main reads.
ProgramLines ==
  {LineUri("a.ts"), LineUri("http://["), LineKey(Some("k1"))}

ProgramManifests == SeqUpTo(ProgramLines, MaxLines)

\* The worker loops of the repository: the tasks main spawns (main.rs:37-56)
\* and the tasks DownloadWorker::run spawns (downloader.rs:26-62).
Pools == {"main", "DownloadWorker"}

InitProgram ==
  /\ InitWatcher
  /\ ctrl = [pc |-> "update", h |-> 1]
  /\ queue = <<>>
  /\ pushed = <<>>
  /\ is_done = FALSE
  /\ pool \in Pools
  /\ worker_count \in 1..WorkerCount
  /\ call = NoCall
  /\ wpc = [w \in Workers |-> IF w > worker_count THEN "unspawned"
                              ELSE IF pool = "main" THEN "loop" ELSE "steal"]
  /\ witem = [w \in Workers |-> NoItem]
  /\ mutex = NoOwner
  /\ MKDIR_CACHE = {}
  /\ dir_calls = NoCalls
  /\ written = {}
  /\ fetched = <<>>

\* main.rs:58-70: watcher.update(manifest) with main's closure as callback.
\* The update runs without an await, so no worker task runs inside it.
MainUpdate(manifest) ==
  /\ ctrl.pc = "update"
  /\ LET st == UpdateLoop(manifest, 1, 0, LoopStart(queue), TRUE) IN
       /\ UpdateEffect(manifest, st)
       /\ queue' = st.queue
       /\ pushed' = pushed \o st.pushed
       /\ ctrl' = [ctrl EXCEPT !.pc = IF st.panicked THEN "panicked" ELSE "drain"]
  /\ UNCHANGED <<is_done, workerVars>>

\* A faulty variant of the polling loop: main does not wait for the deque.
QueueDrainedAlways(q) == TRUE

\* main.rs:72, `while !worker.is_empty()`: the test that ends the polling loop.
QueueDrained(q) == q = <<>>

\* main.rs:72-76: the polling loop ends once the deque is empty; main then
\* stores the stop flag.
MainStop ==
  /\ ctrl.pc = "drain"
  /\ QueueDrained(queue)
  /\ is_done' = TRUE
  /\ ctrl' = [ctrl EXCEPT !.pc = "join"]
  /\ UNCHANGED <<watcherVars, queue, pushed, workerVars>>

\* The tasks that were spawned.
Spawned == 1..worker_count

\* A task ended by panic!("oh noes ..") or by the unwrap of an Err.
PanicPcs == {"panic_status", "panic_unwrap", "panic_assert"}
Finished(w) == wpc[w] = "exited" \/ wpc[w] \in PanicPcs

\* main.rs:78-80, downloader.rs:64-66: handle.await.unwrap() on the next
\* handle; a task that panicked yields a JoinError and the unwrap panics.
MainJoin ==
  /\ ctrl.pc = "join"
  /\ Finished(ctrl.h)
  /\ ctrl' = IF wpc[ctrl.h] \in PanicPcs THEN [ctrl EXCEPT !.pc = "panicked"]
             ELSE IF ctrl.h = worker_count THEN [ctrl EXCEPT !.pc = "done"]
             ELSE [ctrl EXCEPT !.h = @ + 1]
  /\ UNCHANGED <<watcherVars, queue, pushed, is_done, workerVars>>

\* The worker tasks run while main is suspended in an await: the sleep of the
\* polling loop or the await of a handle.
Running(w) == ctrl.pc \in {"drain", "join"}

\* ------------------------------------------------- crossbeam_deque steals

\* Stealer::steal answers Retry to a task that lost the race for the front
\* item: the tasks in `losers` were at their steal when w took the item.
Racing(w, at) == {u \in Workers \ {w} : wpc[u] = at}

\* A faulty variant of the deque: the newest item is stolen first (LIFO).
StealAtBack(q) == Len(q)

\* main.rs:33, Worker::new_fifo(): a steal takes the oldest item, the front.
StealAt(q) == 1

\* A faulty variant of the deque: a steal leaves the item where it is.
WithoutNone(q, k) == q

Without(q, k) == SubSeq(q, 1, k - 1) \o SubSeq(q, k + 1, Len(q))

StealSuccess(w, at, next, losers, retry) ==
  /\ queue # <<>>
  /\ losers \subseteq Racing(w, at)
  /\ queue' = Without(queue, StealAt(queue))
  /\ wpc' = [u \in Workers |-> IF u = w THEN next
                               ELSE IF u \in losers THEN retry ELSE wpc[u]]

\* ------------------------------------------ the tasks of main (main.rs:40-55)

\* while !is_done.load(): the flag is set, the task ends.
IExit(w) ==
  /\ pool = "main" /\ Running(w) /\ wpc[w] = "loop"
  /\ is_done
  /\ wpc' = [wpc EXCEPT ![w] = "exited"]
  /\ UNCHANGED <<watcherVars, driverVars, configVars, witem, mutex, MKDIR_CACHE, dir_calls, written, fetched>>

\* Steal::Success: the item is logged and dropped; the loop goes on.
ISteal(w) ==
  /\ pool = "main" /\ Running(w) /\ wpc[w] = "loop"
  /\ ~is_done
  /\ \E losers \in SUBSET Racing(w, "loop") : StealSuccess(w, "loop", "loop", losers, "sleep")
  /\ fetched' = Append(fetched, queue[StealAt(queue)])
  /\ UNCHANGED <<watcherVars, ctrl, pushed, is_done, configVars, witem, mutex, MKDIR_CACHE, dir_calls, written>>

\* Steal::Empty: sleep.
IEmpty(w) ==
  /\ pool = "main" /\ Running(w) /\ wpc[w] = "loop"
  /\ ~is_done
  /\ queue = <<>>
  /\ wpc' = [wpc EXCEPT ![w] = "sleep"]
  /\ UNCHANGED <<watcherVars, driverVars, configVars, witem, mutex, MKDIR_CACHE, dir_calls, written, fetched>>

\* The sleep (after Empty or Retry) ends.
IWake(w) ==
  /\ pool = "main" /\ Running(w) /\ wpc[w] = "sleep"
  /\ wpc' = [wpc EXCEPT ![w] = "loop"]
  /\ UNCHANGED <<watcherVars, driverVars, configVars, witem, mutex, MKDIR_CACHE, dir_calls, written, fetched>>

\* ------------------- the tasks of DownloadWorker::run (downloader.rs:31-59)

\* Steal::Success(work_item).
DSteal(w) ==
  /\ pool = "DownloadWorker" /\ Running(w) /\ wpc[w] = "steal"
  /\ \E losers \in SUBSET Racing(w, "steal") : StealSuccess(w, "steal", "get", losers, "sleep_retry")
  /\ witem' = [witem EXCEPT ![w] = queue[StealAt(queue)]]
  /\ UNCHANGED <<watcherVars, ctrl, pushed, is_done, configVars, mutex, MKDIR_CACHE, dir_calls, written, fetched>>

\* Steal::Empty: sleep.
DEmpty(w) ==
  /\ pool = "DownloadWorker" /\ Running(w) /\ wpc[w] = "steal"
  /\ queue = <<>>
  /\ wpc' = [wpc EXCEPT ![w] = "sleep_empty"]
  /\ UNCHANGED <<watcherVars, driverVars, configVars, witem, mutex, MKDIR_CACHE, dir_calls, written, fetched>>

\* downloader.rs:35-38: after the sleep, break if the stop flag is set.
StopObserved(flag) == flag

DWakeEmpty(w) ==
  /\ pool = "DownloadWorker" /\ Running(w) /\ wpc[w] = "sleep_empty"
  /\ wpc' = [wpc EXCEPT ![w] = IF StopObserved(is_done) THEN "exited" ELSE "steal"]
  /\ UNCHANGED <<watcherVars, driverVars, configVars, witem, mutex, MKDIR_CACHE, dir_calls, written, fetched>>

\* downloader.rs:40-43: after the sleep of Steal::Retry, loop.
DWakeRetry(w) ==
  /\ pool = "DownloadWorker" /\ Running(w) /\ wpc[w] = "sleep_retry"
  /\ wpc' = [wpc EXCEPT ![w] = "steal"]
  /\ UNCHANGED <<watcherVars, driverVars, configVars, witem, mutex, MKDIR_CACHE, dir_calls, written, fetched>>

\* downloader.rs:45-49: reqwest::get(..).await.unwrap(), then the status test.
\* The request fails, or answers a status that is or is not a success.
GetOutcomes == {"error", "not_success", "success"}

AfterGet(outcome) ==
  CASE outcome = "error" -> "panic_unwrap"
    [] outcome = "not_success" -> "panic_status"
    [] OTHER -> "body"

DGet(w, outcome) ==
  /\ pool = "DownloadWorker" /\ Running(w) /\ wpc[w] = "get"
  /\ wpc' = [wpc EXCEPT ![w] = AfterGet(outcome)]
  /\ fetched' = Append(fetched, witem[w])
  /\ witem' = [witem EXCEPT ![w] = IF outcome = "success" THEN @ ELSE NoItem]
  /\ UNCHANGED <<watcherVars, driverVars, configVars, mutex, MKDIR_CACHE, dir_calls, written>>

\* A faulty variant of the body read: the task looks at the stop flag when
\* the read is done and leaves its item if the flag is set.
DBodyCancellable(w, ok) ==
  /\ pool = "DownloadWorker" /\ Running(w) /\ wpc[w] = "body"
  /\ wpc' = [wpc EXCEPT ![w] = IF is_done THEN "exited" ELSE IF ok THEN "mkdirp" ELSE "panic_unwrap"]
  /\ witem' = [witem EXCEPT ![w] = IF ok /\ ~is_done THEN @ ELSE NoItem]
  /\ UNCHANGED <<watcherVars, driverVars, configVars, mutex, MKDIR_CACHE, dir_calls, written, fetched>>

\* downloader.rs:51: res.bytes().await.unwrap().
DBody(w, ok) ==
  /\ pool = "DownloadWorker" /\ Running(w) /\ wpc[w] = "body"
  /\ wpc' = [wpc EXCEPT ![w] = IF ok THEN "mkdirp" ELSE "panic_unwrap"]
  /\ witem' = [witem EXCEPT ![w] = IF ok THEN @ ELSE NoItem]
  /\ UNCHANGED <<watcherVars, driverVars, configVars, mutex, MKDIR_CACHE, dir_calls, written, fetched>>

\* A faulty variant of the lock: the cache is entered without waiting.
MutexFreeAlways(owner) == TRUE

\* fs.rs:41: MKDIR_CACHE.lock() waits until the mutex is free.
MutexFree(owner) == owner = NoOwner

\* fs.rs:34-41: mkdirp up to its lock.
DLock(w) ==
  /\ pool = "DownloadWorker" /\ Running(w) /\ wpc[w] = "mkdirp"
  /\ \E debug \in BOOLEAN :
       LET entry == MkdirpEntry(OutputDir, witem[w], debug) IN
         IF entry = "lock"
         THEN /\ MutexFree(mutex)
              /\ mutex' = w
              /\ wpc' = [wpc EXCEPT ![w] = "locked"]
              /\ witem' = witem
         ELSE /\ mutex' = mutex
              /\ wpc' = [wpc EXCEPT ![w] = entry]
              /\ witem' = [witem EXCEPT ![w] = NoItem]
  /\ UNCHANGED <<watcherVars, driverVars, configVars, MKDIR_CACHE, dir_calls, written, fetched>>

\* fs.rs:43: the lookup.  A hit returns Ok(()) and drops the guard.
DCheck(w) ==
  /\ pool = "DownloadWorker" /\ Running(w) /\ wpc[w] = "locked"
  /\ IF MkdirPath(OutputDir, witem[w]) \in MKDIR_CACHE
     THEN /\ mutex' = NoOwner
          /\ wpc' = [wpc EXCEPT ![w] = "write"]
     ELSE /\ mutex' = mutex
          /\ wpc' = [wpc EXCEPT ![w] = "create"]
  /\ UNCHANGED <<watcherVars, driverVars, configVars, witem, MKDIR_CACHE, dir_calls, written, fetched>>

\* A faulty variant of the insert: the directory is cached whatever
\* create_dir_all answered.
CacheAfterAlways(cache, path, ok) == cache \cup {path}

\* fs.rs:45-46: what the cache holds after create_dir_all(path) answered.
CacheAfter(cache, path, ok) == IF ok THEN cache \cup {path} ELSE cache

\* A faulty variant of the call of mkdirp: its error is dropped and the task
\* goes on to the write.
DCreateUnchecked(w, ok) ==
  /\ pool = "DownloadWorker" /\ Running(w) /\ wpc[w] = "create"
  /\ LET path == MkdirPath(OutputDir, witem[w]) IN
       /\ dir_calls' = Called(dir_calls, path, ok)
       /\ MKDIR_CACHE' = CacheAfter(MKDIR_CACHE, path, ok)
  /\ mutex' = NoOwner
  /\ wpc' = [wpc EXCEPT ![w] = "write"]
  /\ witem' = witem
  /\ UNCHANGED <<watcherVars, driverVars, configVars, written, fetched>>

\* fs.rs:45-49, downloader.rs:54: create_dir_all; an error returns through
\* `?` (the guard is dropped) and the caller's unwrap panics.
DCreate(w, ok) ==
  /\ pool = "DownloadWorker" /\ Running(w) /\ wpc[w] = "create"
  /\ LET path == MkdirPath(OutputDir, witem[w]) IN
       /\ dir_calls' = Called(dir_calls, path, ok)
       /\ MKDIR_CACHE' = CacheAfter(MKDIR_CACHE, path, ok)
  /\ mutex' = NoOwner
  /\ wpc' = [wpc EXCEPT ![w] = IF ok THEN "write" ELSE "panic_unwrap"]
  /\ witem' = [witem EXCEPT ![w] = IF ok THEN @ ELSE NoItem]
  /\ UNCHANGED <<watcherVars, driverVars, configVars, written, fetched>>

\* downloader.rs:55: the path handed to std::fs::write.
WritePath(output_dir, work_item) == work_item.local_path

\* downloader.rs:55: std::fs::write(work_item.local_path, body).unwrap().
DWrite(w, ok) ==
  /\ pool = "DownloadWorker" /\ Running(w) /\ wpc[w] = "write"
  /\ written' = IF ok THEN written \cup {WritePath(OutputDir, witem[w])} ELSE written
  /\ wpc' = [wpc EXCEPT ![w] = IF ok THEN "steal" ELSE "panic_unwrap"]
  /\ witem' = [witem EXCEPT ![w] = NoItem]
  /\ UNCHANGED <<watcherVars, driverVars, configVars, mutex, MKDIR_CACHE, dir_calls, fetched>>

\* ---------------------------------------------------------- specifications

Controller ==
  \/ \E manifest \in ProgramManifests : MainUpdate(manifest)
  \/ MainStop
  \/ MainJoin

Worker(w) ==
  \/ IExit(w) \/ ISteal(w) \/ IEmpty(w) \/ IWake(w)
  \/ DSteal(w) \/ DEmpty(w) \/ DWakeEmpty(w) \/ DWakeRetry(w)
  \/ \E outcome \in GetOutcomes : DGet(w, outcome)
  \/ \E ok \in BOOLEAN : DBody(w, ok)
  \/ DLock(w) \/ DCheck(w)
  \/ \E ok \in BOOLEAN : DCreate(w, ok)
  \/ \E ok \in BOOLEAN : DWrite(w, ok)

Init == InitProgram

Next == Controller \/ \E w \in Workers : Worker(w)

\* The program: main and its worker tasks.
Spec == Init /\ [][Next]_vars

\* The program under the runtime's scheduling: every task that can run is
\* eventually run.
FairSpec == Spec /\ WF_vars(Controller) /\ \A w \in Workers : WF_vars(Worker(w))

\* The program at rest while one of its parts is exercised alone.
Idle ==
  /\ InitWatcher
  /\ ctrl = [pc |-> "harness", h |-> 1]
  /\ queue = <<>>
  /\ pushed = <<>>
  /\ is_done = FALSE
  /\ pool = "main"
  /\ worker_count = WorkerCount
  /\ wpc = [w \in Workers |-> "loop"]
  /\ witem = [w \in Workers |-> NoItem]
  /\ mutex = NoOwner
  /\ MKDIR_CACHE = {}
  /\ dir_calls = NoCalls
  /\ written = {}
  /\ fetched = <<>>

InitHarness == Idle /\ call = NoCall

NextWatcher == \E new_manifest \in WatchManifests : Update(new_manifest)

\* One watcher under any sequence of update calls.
WatcherSpec == InitHarness /\ [][NextWatcher]_vars

\* The index in Stream of a Uri line of a window.
StreamIndex(line) == CHOOSE k \in 1..Len(Stream) : Stream[k] = line.u

\* A live playlist only moves forward: segments roll off its head and are
\* appended at its tail.
LiveUpdate(lo, hi) ==
  /\ hi - lo + 1 <= MaxWindow
  /\ lines # <<>> => /\ lo >= StreamIndex(lines[1])
                     /\ hi >= StreamIndex(lines[Len(lines)])
  /\ Update(Window(lo, hi))

NextLive == \E lo \in 1..Len(Stream) : \E hi \in lo..Len(Stream) : LiveUpdate(lo, hi)

\* One watcher fed the successive windows of a live playlist.
LiveSpec == InitHarness /\ [][NextLive]_vars

\* ------------------------------------------------- the resolver by itself

\* The manifest urls, uri strings and file types the resolver is called with.
ManifestUrls ==
  {BaseUrl, [host |-> "g", path |-> <<"v", "index.m3u8">>], [host |-> "h", path |-> <<>>]}
Refs == RelativeRefs \cup AbsoluteRefs \cup BadRefs
FileTypes == {"Key", "MediaSegment"}

InitResolver ==
  /\ Idle
  /\ call \in {[f |-> "parse_path_from_url", pc |-> "called", manifest_url |-> b, url |-> u,
                file_type |-> k, ret |-> None, joined |-> FALSE, entry |-> "none"] :
               b \in ManifestUrls, u \in Refs, k \in FileTypes}

\* fs::parse_path_from_url(manifest_url, url, file_type) returns.
Resolve ==
  /\ call.f = "parse_path_from_url" /\ call.pc = "called"
  /\ call' = [call EXCEPT
       !.pc = "returned",
       !.ret = parse_path_from_url(call.manifest_url, call.url, call.file_type),
       !.joined = or_else(UrlParse(call.url), call.manifest_url, call.url).joined]
  /\ UNCHANGED <<watcherVars, driverVars, pool, worker_count, wpc, witem, mutex, MKDIR_CACHE,
                 dir_calls, written, fetched>>

\* fs::mkdirp(output_dir, &work_item) for the work item the resolver
\* returned, up to its lock (fs.rs:34-41).
Mkdirp(debug) ==
  /\ call.f = "parse_path_from_url" /\ call.pc = "returned"
  /\ call.ret.ok
  /\ call' = [call EXCEPT !.pc = "mkdirp", !.entry = MkdirpEntry(OutputDir, call.ret.v, debug)]
  /\ UNCHANGED <<watcherVars, driverVars, pool, worker_count, wpc, witem, mutex, MKDIR_CACHE,
                 dir_calls, written, fetched>>

NextResolver == Resolve \/ \E debug \in BOOLEAN : Mkdirp(debug)

\* The resolver and mkdirp's path computation under any call.
ResolverSpec == InitResolver /\ [][NextResolver]_vars

\* ---------------------------------------------------- the parser by itself

\* The longest text of digits and signs given to integer.
MaxDigits == 3

IntegerChars == {"0", "1", "7", "-"}

RECURSIVE TextsUpTo(_, _)
TextsUpTo(S, n) ==
  IF n = 0 THEN {<<>>}
  ELSE TextsUpTo(S, n - 1) \cup {Append(t, c) : t \in TextsUpTo(S, n - 1), c \in S}

\* u64::MAX, u64::MAX + 1 and the numeral of parser.rs:192.
LongNumerals ==
  {U64Max, Front(U64Max) \o <<"6">>, U64Max \o <<"1">>}

IntegerInputs == TextsUpTo(IntegerChars, MaxDigits) \cup LongNumerals

ChunkM3U == <<"#", "E", "X", "T", "M", "3", "U", "\n">>
ChunkVersion ==
  <<"#", "E", "X", "T", "-", "X", "-", "V", "E", "R", "S", "I", "O", "N", ":", "3", "\n">>
ChunkUri == <<"a", ".", "t", "s", "\n">>

\* The lines a manifest text is made of; the last two are not lines the
\* grammar has: a line that starts with a blank, and a line without its end.
ManifestChunks ==
  {ChunkM3U, ChunkVersion, ChunkUri,
   <<"#", " ", "c", "\n">>,
   <<"\r", "\n">>,
   <<" ", "b", "\n">>,
   <<"a", ".", "t", "s">>}

RECURSIVE Concat(_)
Concat(chunks) == IF chunks = <<>> THEN <<>> ELSE chunks[1] \o Concat(Tail(chunks))

ManifestTexts == {Concat(cs) : cs \in TextsUpTo(ManifestChunks, MaxLines)}

\* The texts given to attr_val: every short text over a digit, a non-zero
\* digit, 'x', '.' and a letter, and the values of parser.rs:212-234.
AttrValChars == {"0", "1", "x", ".", "A"}

AttrValTexts ==
  {<<"0", "x", "4", "2">>, <<"0", "X", "4", "2">>,
   <<"1", "0", "2", "4", "x", "7", "6", "8">>,
   <<"4", "2">>, <<"-", "1", ".", "5">>, <<"\"", "s", "\"">>, <<"Y", "E", "S">>,
   <<"0", "x", "4", "2", ",", "A", "=", "1">>}

AttrValInputs == TextsUpTo(AttrValChars, MaxDigits) \cup AttrValTexts

\* The texts given to tag_args: every short text over a digit, '.', ',', a
\* letter, '=', a blank and a line ending, and longer ones of each form.
TagArgsChars == {"1", ".", ",", "A", "=", " ", "\n"}

TagArgsTexts ==
  {<<"1", ".", "5", ",", "a", " ", "b", "\n">>,
   <<"1", ".", "5", ",", "\r", "\n">>,
   <<"-", ".", "5", ",", "t">>,
   <<"A", "=", "1", ",", "B", "=", "0", "x", "4", "2", "\n">>,
   <<"1", "2", "\n">>,
   <<"1", "2", "\r", "\n">>,
   <<"1", "2", "a", "\n">>,
   <<"0", "0", "7", "\n">>,
   <<"1", "8", "4", "4", "6", "7", "4", "4", "0", "7", "3", "7", "0", "9", "5", "5", "1", "6", "1", "6", "\n">>,
   <<"V", "O", "D", "\n">>}

TagArgsInputs == TextsUpTo(TagArgsChars, MaxDigits) \cup TagArgsTexts

\* The lines given to all_tags: tags, a uri, comments, blank lines; and two
\* lines no rule of playlist_line takes: "#EXT" before a blank, and a line
\* that starts with a blank.
ChunkNew == <<"#", "E", "X", "T", "-", "X", "-", "N", "E", "W", ":", "s", "\r", "\n">>
ChunkComment == <<"#", " ", "c", "\n">>
ChunkNote == <<"#", "E", "x", "\n">>
ChunkBlank == <<"\r", "\n">>
ChunkEmpty == <<"\n">>
ChunkExtBlank == <<"#", "E", "X", "T", " ", "C", "\n">>
ChunkIndented == <<" ", "b", "\n">>

LineChunks ==
  {ChunkM3U, ChunkVersion, ChunkNew, ChunkUri, ChunkComment, ChunkNote, ChunkBlank, ChunkEmpty,
   ChunkExtBlank, ChunkIndented}

\* The longest byte sequence encoded.
MaxBytes == 2

HexBytes == {0, 10, 66, 171, 255}

\* The digit texts decoded: of even and odd length, with a character that is
\* no hex digit.
HexChars == {"0", "4", "a", "F", "x"}

HexTexts == TextsUpTo(HexChars, MaxDigits)

\* The Deserializer at the value v of an attribute (de.rs:495-501,
\* Attributes::next_value_seed).
AtAttributeValue(v) ==
  [nodes |-> <<Node("AttributeValue", v), Node("AttributesEnd", <<>>)>>,
   context |-> "Attributes", next_index |-> 0]

\* The largest width and height of the small resolutions.
MaxSide == 11

ResolutionSides == 0..MaxSide \cup {768, 1024}

\* Tags with an attribute list: one attribute, and two.
ChunkStreamInf ==
  <<"#", "E", "X", "T", "-", "X", "-", "S", "T", "R", "E", "A", "M", "-", "I", "N", "F", ":",
    "B", "A", "N", "D", "W", "I", "D", "T", "H", "=", "1", "\n">>
ChunkKey ==
  <<"#", "E", "X", "T", "-", "X", "-", "K", "E", "Y", ":", "M", "E", "T", "H", "O", "D", "=",
    "N", "O", "N", "E", ",", "I", "V", "=", "0", "x", "4", "2", "\n">>

\* The lines of the manifests whose nodes are taken.
NodeChunks ==
  {ChunkM3U, ChunkVersion, ChunkNew, ChunkStreamInf, ChunkKey, ChunkUri, ChunkComment,
   ChunkIndented}

InitParser ==
  /\ Idle
  /\ call \in {[f |-> g, pc |-> "called", input |-> i, ret |-> None] :
                g \in {"integer", "hls_parser::integer"}, i \in IntegerInputs}
            \cup {[f |-> g, pc |-> "called", input |-> i, ret |-> None] :
                g \in {"Manifest::parse", "Deserializer::from_str"}, i \in ManifestTexts}
            \cup {[f |-> "attr_val", pc |-> "called", input |-> i, ret |-> None] :
                i \in AttrValInputs}
            \cup {[f |-> "tag_args", pc |-> "called", input |-> i, ret |-> None] :
                i \in TagArgsInputs}
            \cup {[f |-> "bytes", pc |-> "called", encoded |-> Some(b), input |-> hex_encode(b),
                   ret |-> None] : b \in TextsUpTo(HexBytes, MaxBytes)}
            \cup {[f |-> "bytes", pc |-> "called", encoded |-> None, input |-> i,
                   ret |-> None] : i \in HexTexts}
            \cup {[f |-> "resolution", pc |-> "called", width |-> w, height |-> h,
                   input |-> to_string(w) \o <<"x">> \o to_string(h), parsed |-> None,
                   ret |-> None] : w \in ResolutionSides, h \in ResolutionSides}
            \cup {[f |-> "Manifest::nodes", pc |-> "called", input |-> Concat(ls),
                   ret |-> None] : ls \in TextsUpTo(NodeChunks, MaxLines)}
            \cup {[f |-> "all_tags", pc |-> "called", lines |-> ls, input |-> Concat(ls),
                   ret |-> None] : ls \in TextsUpTo(LineChunks, MaxLines)}

Return(f, ret) ==
  /\ call.f = f /\ call.pc = "called"
  /\ call' = [call EXCEPT !.pc = IF ret = PPanic THEN "panicked" ELSE "returned", !.ret = ret]
  /\ UNCHANGED <<watcherVars, driverVars, pool, worker_count, wpc, witem, mutex, MKDIR_CACHE,
                 dir_calls, written, fetched>>

\* hls::parser::integer(input).
Integer == Return("integer", integer(call.input))

\* hls_parser::parser::integer(input).
HlsParserInteger == Return("hls_parser::integer", hls_parser_integer(call.input))

\* Manifest::parse(input).
Parse == Return("Manifest::parse", ManifestParse(call.input))

\* Deserializer::from_str(input).
FromStr == Return("Deserializer::from_str", DeserializerFromStr(ManifestParse(call.input)))

\* hls::parser::attr_val(input).
AttrVal == Return("attr_val", attr_val(call.input))

\* hls::parser::tag_args(input).
TagArgsOf == Return("tag_args", tag_args(call.input))

\* hls::parser::all_tags(input).
AllTags == Return("all_tags", all_tags(call.input))

\* What a call of the Deserializer gave its visitor, as a Result.
Decoded(o) ==
  CASE o.t = "value" -> Ok(o.v)
    [] o.t = "err" -> Err(o.v)

\* A Vec<u8> field is decoded from the Hex value HexSequence::new(input):
\* deserialize_byte_buf is forwarded to deserialize_any (de.rs:249-253).
HexBytesDecoded ==
  /\ call.f = "bytes" /\ call.pc = "called"
  /\ \E o \in {deserialize_any(AtAttributeValue([k |-> "Hex", v |-> call.input]), "ByteBuf")} :
       call' = [call EXCEPT !.pc = "returned", !.ret = Decoded(o)]
  /\ UNCHANGED <<watcherVars, driverVars, pool, worker_count, wpc, witem, mutex, MKDIR_CACHE,
                 dir_calls, written, fetched>>

\* hls::parser::resolution(input), input the text format!("{}x{}", width,
\* height).
ResolutionParsed ==
  /\ call.f = "resolution" /\ call.pc = "called"
  /\ call' = [call EXCEPT !.pc = "parsed", !.parsed = resolution(call.input)]
  /\ UNCHANGED <<watcherVars, driverVars, pool, worker_count, wpc, witem, mutex, MKDIR_CACHE,
                 dir_calls, written, fetched>>

\* A String field is decoded from the Resolution value that was parsed
\* (manifest.rs:50, StreamInfAttributes::resolution): deserialize_string is
\* forwarded to deserialize_any (de.rs:249-253).
ResolutionDecoded ==
  /\ call.f = "resolution" /\ call.pc = "parsed"
  /\ call.parsed.ok
  /\ \E o \in {deserialize_any(AtAttributeValue(call.parsed.v), "String")} :
       call' = [call EXCEPT !.pc = "returned", !.ret = Decoded(o)]
  /\ UNCHANGED <<watcherVars, driverVars, pool, worker_count, wpc, witem, mutex, MKDIR_CACHE,
                 dir_calls, written, fetched>>

\* Manifest::parse(input), then Manifest::nodes of the manifest it gave.
ManifestNodes ==
  /\ call.f = "Manifest::nodes" /\ call.pc = "called"
  /\ \E parsed \in {ManifestParse(call.input)} :
       call' = [call EXCEPT !.pc = "returned",
                            !.ret = IF parsed.ok THEN Ok(nodes(parsed.v)) ELSE parsed]
  /\ UNCHANGED <<watcherVars, driverVars, pool, worker_count, wpc, witem, mutex, MKDIR_CACHE,
                 dir_calls, written, fetched>>

NextParser ==
  \/ Integer \/ HlsParserInteger \/ Parse \/ FromStr \/ AttrVal \/ AllTags \/ HexBytesDecoded
  \/ TagArgsOf
  \/ ResolutionParsed \/ ResolutionDecoded \/ ManifestNodes

\* The parsers under any input.
ParserSpec == InitParser /\ [][NextParser]_vars

\* --------------------------------------------------- the decoder by itself

\* A tag the schema does not name, with no argument, an integer, a string
\* and an attribute list.
UnknownChunks ==
  {<<"#", "E", "X", "T", "-", "X", "-", "N", "E", "W", "\n">>,
   <<"#", "E", "X", "T", "-", "X", "-", "N", "E", "W", ":", "1", "\n">>,
   <<"#", "E", "X", "T", "-", "X", "-", "N", "E", "W", ":", "s", "\n">>,
   <<"#", "E", "X", "T", "-", "X", "-", "N", "E", "W", ":", "A", "=", "1", "\n">>}

\* The EXTINF form: a float, a comma and a title.
ChunkInf == <<"#", "E", "X", "T", "I", "N", "F", ":", "1", ".", "5", ",", "t", "\n">>

\* Tags with an attribute list: a name the struct does not have after and
\* before one it has, a name twice, a value that is no hex, a list that
\* lacks a field, and one field of each type that is not a u64.
ChunkStreamInfNew ==
  <<"#", "E", "X", "T", "-", "X", "-", "S", "T", "R", "E", "A", "M", "-", "I", "N", "F", ":",
    "B", "A", "N", "D", "W", "I", "D", "T", "H", "=", "1", ",", "N", "E", "W", "=", "1", "x",
    "2", "\n">>
ChunkKeyNew ==
  <<"#", "E", "X", "T", "-", "X", "-", "K", "E", "Y", ":", "N", "E", "W", "=", "Y", "E", "S",
    ",", "M", "E", "T", "H", "O", "D", "=", "N", "O", "N", "E", ",", "I", "V", "=", "0", "x",
    "4", "2", "\n">>
ChunkStreamInfTwice ==
  <<"#", "E", "X", "T", "-", "X", "-", "S", "T", "R", "E", "A", "M", "-", "I", "N", "F", ":",
    "B", "A", "N", "D", "W", "I", "D", "T", "H", "=", "1", ",", "B", "A", "N", "D", "W", "I",
    "D", "T", "H", "=", "1", "\n">>
ChunkStreamInfOdd ==
  <<"#", "E", "X", "T", "-", "X", "-", "S", "T", "R", "E", "A", "M", "-", "I", "N", "F", ":",
    "B", "A", "N", "D", "W", "I", "D", "T", "H", "=", "1", ",", "N", "E", "W", "=", "0", "x",
    "4", "\n">>
ChunkKeyNoIv ==
  <<"#", "E", "X", "T", "-", "X", "-", "K", "E", "Y", ":", "M", "E", "T", "H", "O", "D", "=",
    "N", "O", "N", "E", "\n">>
ChunkMedia ==
  <<"#", "E", "X", "T", "-", "X", "-", "M", "E", "D", "I", "A", ":", "T", "Y", "P", "E", "=",
    "A", "U", "D", "I", "O", ",", "G", "R", "O", "U", "P", "-", "I", "D", "=", "\"", "g", "\"",
    ",", "N", "A", "M", "E", "=", "\"", "n", "\"", ",", "D", "E", "F", "A", "U", "L", "T", "=",
    "N", "O", "\n">>

AttributeChunks ==
  {ChunkStreamInf, ChunkKey, ChunkStreamInfNew, ChunkKeyNew, ChunkStreamInfTwice,
   ChunkStreamInfOdd, ChunkKeyNoIv, ChunkMedia}

\* A tag that carries an enum.
ChunkPlaylistType ==
  <<"#", "E", "X", "T", "-", "X", "-", "P", "L", "A", "Y", "L", "I", "S", "T", "-", "T", "Y",
    "P", "E", ":", "V", "O", "D", "\n">>

\* The lines whose argument is what their variant carries.
PlainChunks == {ChunkM3U, ChunkVersion, ChunkInf, ChunkPlaylistType, ChunkUri}

DecoderChunks == PlainChunks \cup UnknownChunks \cup AttributeChunks

NoDeserializer == [nodes |-> <<>>, context |-> "Manifest", next_index |-> 0]

\* The fields a visit_map has set: none.
NoAttrs == [key \in {} |-> None]

\* hls::from_str::<Vec<Line>>(input) is called (main.rs:85).
InitDecoder ==
  /\ Idle
  /\ call \in {[f |-> "from_str", pc |-> "called", lines |-> ls, input |-> Concat(ls),
                de |-> NoDeserializer, visitor |-> "Vec", access |-> "none", field |-> "none",
                key |-> "none", attrs |-> NoAttrs, out |-> <<>>, ret |-> None] :
                ls \in TextsUpTo(DecoderChunks, MaxLines)}

Decoding(pcs) == call.f = "from_str" /\ call.pc \in pcs

DecoderStep(c) ==
  /\ call' = c
  /\ UNCHANGED <<watcherVars, driverVars, pool, worker_count, wpc, witem, mutex, MKDIR_CACHE,
                 dir_calls, written, fetched>>

\* An error ends from_str with it (the ? of every caller), a panic aborts.
Ended(o) ==
  [call EXCEPT !.de = o.de,
               !.pc = CASE o.t = "err" -> "returned" [] o.t = "panic" -> "panicked"
                        [] OTHER -> "unmodelled",
               !.ret = IF o.t = "err" THEN Err(o.v) ELSE call.ret]

\* A line is decoded: the Vec's visitor pushes it and asks for the next.
Pushed(o, line) ==
  [call EXCEPT !.de = o.de, !.pc = "next_element_seed", !.out = Append(call.out, line)]

\* de.rs:442-448: Deserializer::from_str(s)?, then Vec::<Line>::deserialize.
DecodeFromStr ==
  /\ Decoding({"called"})
  /\ \E r \in {DeserializerFromStr(ManifestParse(call.input))} :
       DecoderStep(IF r.ok THEN [call EXCEPT !.pc = "deserialize_seq", !.de = r.v]
                   ELSE [call EXCEPT !.pc = "returned", !.ret = r])

DeserializeSeq ==
  /\ Decoding({"deserialize_seq"})
  /\ \E o \in {deserialize_seq(call.de)} :
       DecoderStep(IF o.t = "seq" THEN [call EXCEPT !.de = o.de, !.pc = "next_element_seed"]
                   ELSE Ended(o))

\* The Vec's visitor asks for an element: the end of the list returns it
\* from from_str, otherwise Line::deserialize is called.
NextElementSeed ==
  /\ Decoding({"next_element_seed"})
  /\ \E o \in {next_element_seed(call.de)} :
       DecoderStep(
         IF o.t = "value" THEN [call EXCEPT !.pc = "returned", !.ret = Ok(call.out)]
         ELSE IF o.t = "seed" THEN [call EXCEPT !.pc = "deserialize_enum", !.visitor = "Line"]
         ELSE Ended(o))

\* Line::deserialize and Tag::deserialize call deserialize_enum; the access
\* it hands to visit_enum is asked for the variant next.
DeserializeEnum ==
  /\ Decoding({"deserialize_enum"})
  /\ \E o \in {deserialize_enum(call.de, call.visitor)} :
       DecoderStep(
         IF o.t = "enum" THEN [call EXCEPT !.de = o.de, !.pc = "variant_seed", !.access = o.v]
         ELSE Ended(o))

VariantSeed ==
  /\ Decoding({"variant_seed"})
  /\ \E o \in {variant_seed(call.access, call.de, call.visitor)} :
       DecoderStep(
         IF o.t = "value" THEN [call EXCEPT !.de = o.de, !.pc = "variant", !.field = o.v]
         ELSE Ended(o))

\* The derived visit_enum, by the variant: newtype_variant_seed
\* (de.rs:319-324, 361-366, 414-420, 532-537) calls the deserialize of what
\* the variant carries, unit_variant closes a variant that carries nothing.
Variant ==
  /\ Decoding({"variant"})
  /\ \E o \in {unit_variant(call.access, call.de)} :
       DecoderStep(
         IF call.visitor = "Line"
         THEN (IF call.field = "Tag"
               THEN [call EXCEPT !.pc = "deserialize_enum", !.visitor = "Tag"]
               ELSE [call EXCEPT !.pc = "deserialize_string"])
         ELSE CASE Carries(call.field) = "unit" ->
                     IF o.t = "value" THEN Pushed(o, DecodedTag(call.field, None)) ELSE Ended(o)
                [] Carries(call.field) = "u64" -> [call EXCEPT !.pc = "deserialize_u64"]
                [] Carries(call.field) = "f64" -> [call EXCEPT !.pc = "deserialize_f64"]
                [] Carries(call.field) = "String" -> [call EXCEPT !.pc = "deserialize_string"]
                [] Carries(call.field) = "struct" ->
                     [call EXCEPT !.pc = "deserialize_struct", !.attrs = NoAttrs]
                [] Carries(call.field) = "enum" -> [call EXCEPT !.pc = "deserialize_value"])

\* u64::deserialize, f64::deserialize, String::deserialize and
\* PlaylistType::deserialize; the second and the third are forwarded to
\* deserialize_any (de.rs:249-253).
DeserializeScalar ==
  /\ Decoding({"deserialize_u64", "deserialize_f64", "deserialize_string", "deserialize_value"})
  /\ \E o \in {CASE call.pc = "deserialize_u64" -> deserialize_u64(call.de, "u64")
                  [] call.pc = "deserialize_f64" -> deserialize_any(call.de, "f64")
                  [] call.pc = "deserialize_string" -> deserialize_any(call.de, "String")
                  [] call.pc = "deserialize_value" -> deserialize(call.de, "PlaylistType")} :
       DecoderStep(
         IF o.t = "value"
         THEN Pushed(o, IF call.visitor = "Line" THEN DecodedUri(o.v)
                        ELSE DecodedTag(call.field, Some(o.v)))
         ELSE Ended(o))

\* The struct's deserialize calls deserialize_struct, which de.rs:249-253
\* forwards to deserialize_any; the map access it hands to visit_map is
\* asked for a key next.
DeserializeStruct ==
  /\ Decoding({"deserialize_struct"})
  /\ \E o \in {deserialize_any(call.de, StructOf(call.field))} :
       DecoderStep(IF o.t = "map" THEN [call EXCEPT !.de = o.de, !.pc = "next_key_seed"]
                   ELSE Ended(o))

\* The loop of the derived visit_map asks for a key: None ends the loop, a
\* field the map has set already is serde's duplicate_field error, any
\* other key is followed by its value.
NextKeySeed ==
  /\ Decoding({"next_key_seed"})
  /\ \E o \in {next_key_seed(call.de, FieldVisitor(StructOf(call.field)))} :
       DecoderStep(
         IF o.t # "value" THEN Ended(o)
         ELSE IF o.v = None THEN [call EXCEPT !.de = o.de, !.pc = "visit_map_end"]
         ELSE IF o.v[1] \in DOMAIN call.attrs
           THEN [call EXCEPT !.de = o.de, !.pc = "returned", !.ret = Err("Message")]
         ELSE [call EXCEPT !.de = o.de, !.pc = "next_value_seed", !.key = o.v[1]])

\* The loop asks for the key's value; the value of a key that is no field
\* is dropped.
NextValueSeed ==
  /\ Decoding({"next_value_seed"})
  /\ \E o \in {next_value_seed(ValueSeed(call.de, StructOf(call.field), call.key))} :
       DecoderStep(
         IF o.t # "value" THEN Ended(o)
         ELSE [call EXCEPT !.de = o.de, !.pc = "next_key_seed", !.key = "none",
                           !.attrs = IF call.key = "__ignore" THEN @
                                     ELSE [k \in DOMAIN @ \cup {call.key} |->
                                             IF k = call.key THEN o.v ELSE @[k]]])

\* The loop is over: the struct is built, or a field is missing.
VisitMapEnd ==
  /\ Decoding({"visit_map_end"})
  /\ DecoderStep(
       IF MissingFields(StructOf(call.field), call.attrs) # {}
       THEN [call EXCEPT !.pc = "returned", !.ret = Err("Message")]
       ELSE [call EXCEPT !.pc = "next_element_seed", !.attrs = NoAttrs,
                         !.out = Append(call.out,
                                        DecodedTag(call.field,
                                                   Some(StructValue(StructOf(call.field),
                                                                    call.attrs))))])

\* peek, next and take1 are called on a Deserializer whose cursor is
\* anywhere in its nodes, the end included.
CursorLines == TextsUpTo({ChunkVersion, ChunkUri, ChunkKey}, MaxLines) \ {<<>>}

Deserializers ==
  UNION {{[d EXCEPT !.next_index = j] : j \in 0..Len(d.nodes)} :
           d \in {DeserializerFromStr(ManifestParse(Concat(ls))).v : ls \in CursorLines}}

InitCursor ==
  /\ Idle
  /\ call \in {[f |-> g, pc |-> "called", input |-> d, de |-> d, ret |-> None] :
                g \in {"Deserializer::peek", "Deserializer::next", "take1"},
                d \in Deserializers}

DeserializerPeek ==
  /\ call.f = "Deserializer::peek" /\ call.pc = "called"
  /\ DecoderStep([call EXCEPT !.pc = "returned", !.ret = peek(call.de)])

DeserializerNext ==
  /\ call.f = "Deserializer::next" /\ call.pc = "called"
  /\ \E o \in {next_node(call.de)} :
       DecoderStep([call EXCEPT !.pc = "returned", !.ret = o.r, !.de = o.de])

DeserializerTake1 ==
  /\ call.f = "take1" /\ call.pc = "called"
  /\ \E o \in {take1(call.de)} :
       DecoderStep([call EXCEPT !.pc = "returned", !.ret = o.r, !.de = o.de])

NextDecoder ==
  \/ DecodeFromStr
  \/ DeserializeSeq
  \/ NextElementSeed
  \/ DeserializeEnum
  \/ VariantSeed
  \/ Variant
  \/ DeserializeScalar
  \/ DeserializeStruct
  \/ NextKeySeed
  \/ NextValueSeed
  \/ VisitMapEnd
  \/ DeserializerPeek
  \/ DeserializerNext
  \/ DeserializerTake1

\* hls::from_str on any manifest of known and unknown lines, and the
\* cursor's functions on any Deserializer.
DecoderSpec == (InitDecoder \/ InitCursor) /\ [][NextDecoder]_vars

\* ------------------------------------------------------------- properties

SegmentsOf(evs) == SelectEvents(evs, "Segment")
KeysOf(evs) == SelectEvents(evs, "Key")
UrisOf(evs) == [j \in 1..Len(evs) |-> evs[j].uri]
Range(q) == {q[j] : j \in 1..Len(q)}

\* C1: over the life of a watcher no Segment position (the k-th Uri line of a
\* manifest) is the position of more than one FileAdd::Segment event.
C1_PositionEmitsOnce ==
  \A j \in 1..Len(emitted) : \A k \in 1..Len(emitted) :
    j # k => emitted[j].pos # emitted[k].pos

\* An update whose manifest holds Uri lines at positions emitted by an earlier
\* update.
C1_Witness ==
  /\ last.before >= 1
  /\ Len(uris(lines)) >= 1
  /\ \E j \in 1..Len(emitted) : emitted[j].pos = 1

\* C2: when the update of M1 emitted three Segment events and M2 is M1 with
\* its first two segments rolled off and two new segments appended, the update
\* of M2 emits exactly the two new segments as Segment events.
C2_LiveUpdateEmitsNew ==
  [][ LET old == uris(lines)
          new == uris(lines')
          n == Len(old)
      IN ( /\ Len(SegmentsOf(last.events)) = 3
           /\ n >= 3
           /\ Len(new) = n
           /\ SubSeq(new, 1, n - 2) = SubSeq(old, 3, n)
           /\ new[n - 1] \notin Range(old)
           /\ new[n] \notin Range(old)
           /\ new[n - 1] # new[n] )
         => UrisOf(SegmentsOf(last'.events)) = <<new[n - 1], new[n]>> ]_vars

\* C3: the Segment events of a watcher's life are one event for each position
\* from 1 to the largest number of Uri lines of an update, and each carries
\* the uri that stood at its position in the update that emitted it.
C3_OneEventPerPositionSeen ==
  /\ Len(emitted) = max_uris
  /\ \A k \in 1..max_uris : Cardinality({j \in 1..Len(emitted) : emitted[j].pos = k}) = 1
  /\ \A j \in 1..Len(emitted) : emitted[j].pos \in 1..max_uris
  /\ \A j \in 1..Len(last.events) :
       last.events[j].kind = "Segment" =>
         /\ last.events[j].pos \in 1..Len(uris(lines))
         /\ uris(lines)[last.events[j].pos] = last.events[j].uri

\* A later update that grew the manifest beyond the positions already emitted.
C3_Witness ==
  /\ last.before >= 1
  /\ Len(uris(lines)) > last.before
  /\ SegmentsOf(last.events) # <<>>

\* The Key lines of a manifest: the index of each and the uri its event is to
\* carry.
KeyLines(m) == {n \in 1..Len(m) : m[n].t = "Key"}
KeyUri(line) == IF line.attrs.uri = None THEN "" ELSE line.attrs.uri[1]

\* C4: every Key line of every update emits exactly one FileAdd::Key event,
\* carrying the tag's uri or the empty string, whether or not the same Key was
\* emitted by an earlier update.
C4_EveryKeyEmits ==
  /\ Len(KeysOf(last.events)) = Cardinality(KeyLines(lines))
  /\ \A n \in KeyLines(lines) :
       \E j \in 1..Len(last.events) :
         /\ last.events[j].kind = "Key"
         /\ last.events[j].line = n
         /\ last.events[j].uri = KeyUri(lines[n])

\* An update that emitted a Key whose uri an earlier update had emitted, and a
\* Key without a uri.
C4_Witness ==
  /\ \E j \in 1..Len(last.events) :
       last.events[j].kind = "Key" /\ last.events[j].uri \in last.keys_before
  /\ \E n \in KeyLines(lines) : lines[n].attrs.uri = None

\* C5 as stated: no uri string is carried by more than one Segment event.
C5_UriEmitsOnce ==
  \A j \in 1..Len(emitted) : \A k \in 1..Len(emitted) :
    j # k => emitted[j].uri # emitted[k].uri

\* C5, amended: no uri is emitted twice for the same position; two Segment
\* events that carry the same uri were emitted for different positions.
C5_UriEmitsOncePerPosition ==
  \A j \in 1..Len(emitted) : \A k \in 1..Len(emitted) :
    (j # k /\ emitted[j].uri = emitted[k].uri) => emitted[j].pos # emitted[k].pos

\* One uri emitted for two positions.
C5_Witness ==
  \E j \in 1..Len(emitted) : \E k \in 1..Len(emitted) :
    j # k /\ emitted[j].uri = emitted[k].uri

\* C6: an update whose manifest has no more Uri lines than segment_count
\* emits no Segment event and leaves segment_count as it was.
C6_NoGrowthNoSegments ==
  Len(uris(lines)) <= last.before =>
    /\ SegmentsOf(last.events) = <<>>
    /\ segment_count = last.before

\* An update with fewer Uri lines than segment_count, none of them zero.
C6_Witness ==
  /\ Len(uris(lines)) >= 1
  /\ Len(uris(lines)) < last.before

\* The update called by main panicked in the callback: its last event did not
\* resolve.
Resolved(ev) == parse_path_from_url(BaseUrl, ev.uri, FileTypeOf(ev))
UpdatePanicked == last.events # <<>> /\ ~Resolved(last.events[Len(last.events)]).ok

\* C7: the events of an update come in manifest line order, Key and Segment
\* events interleaved as their lines are, and main pushes the work item of
\* each event in that order (up to the event whose uri does not resolve).
C7_EventsAndPushesInLineOrder ==
  /\ \A j \in 1..Len(last.events) : \A k \in 1..Len(last.events) :
       j < k => last.events[j].line < last.events[k].line
  /\ ctrl.pc # "update" =>
       LET n == IF UpdatePanicked THEN Len(last.events) - 1 ELSE Len(last.events) IN
         /\ Len(pushed) = n
         /\ \A j \in 1..n : pushed[j] = Resolved(last.events[j]).v

\* A Segment pushed before a Key.
C7_Witness ==
  /\ Len(pushed) >= 2
  /\ pushed[1].file_type = "MediaSegment"
  /\ pushed[2].file_type = "Key"

\* C8 as stated: create_dir_all is called once for each distinct directory.
C8_OneCallPerDirectory ==
  \A p \in DOMAIN dir_calls : dir_calls[p].n = 1

\* C8, amended: create_dir_all succeeds at most once for each directory, and
\* the cache holds exactly the directories it succeeded for; a call that
\* fails is not cached.
C8_OneCreationPerDirectory ==
  /\ \A p \in DOMAIN dir_calls : dir_calls[p].ok <= 1
  /\ MKDIR_CACHE = {p \in DOMAIN dir_calls : dir_calls[p].ok = 1}

\* Two tasks past mkdirp at once for the same directory, created by one call.
C8_Witness ==
  \E w \in Workers : \E v \in Workers :
    /\ w # v
    /\ wpc[w] = "write" /\ wpc[v] = "write"
    /\ MkdirPath(OutputDir, witem[w]) = MkdirPath(OutputDir, witem[v])
    /\ CallsOf(dir_calls, MkdirPath(OutputDir, witem[w])) = [n |-> 1, ok |-> 1]

\* C9: a fetch that answers a non-success status does not end the worker.
C9_WorkerSurvivesStatus ==
  \A w \in Workers : wpc[w] # "panic_status"

\* C10: once the update is done, shutdown terminates: the stop flag is set,
\* every worker exits and main's join over the handles completes.
C10_ShutdownTerminates ==
  (ctrl.pc = "drain") ~> (ctrl.pc = "done" /\ \A w \in Spawned : wpc[w] = "exited")

Count(q, x) == Cardinality({j \in 1..Len(q) : q[j] = x})
AllExited == \A w \in Spawned : wpc[w] = "exited"

\* C11: the stop flag is never set while the queue holds an item, and once
\* every worker task has left its loop every pushed item has been stolen and
\* taken up by a task exactly once (and, by a downloading task, written).
C11_NoItemLostAtShutdown ==
  /\ is_done => queue = <<>>
  /\ AllExited =>
       /\ queue = <<>>
       /\ Len(fetched) = Len(pushed)
       /\ \A x \in Range(pushed) : Count(fetched, x) = Count(pushed, x)
       /\ pool = "DownloadWorker" =>
            \A x \in Range(pushed) : WritePath(OutputDir, x) \in written

\* Every downloading task has exited after two or more items were pushed.
C11_Witness ==
  /\ pool = "DownloadWorker"
  /\ worker_count >= 2
  /\ AllExited
  /\ Len(pushed) >= 2

IsPrefix(p, q) == Len(p) <= Len(q) /\ SubSeq(q, 1, Len(p)) = p

\* C12: with a single worker task the items are fetched in the order they
\* were pushed.
C12_SingleWorkerFifo ==
  worker_count = 1 => IsPrefix(fetched, pushed)

\* A single downloading task that fetched two different items.
C12_Witness ==
  /\ pool = "DownloadWorker"
  /\ worker_count = 1
  /\ Len(fetched) = 2
  /\ fetched[1] # fetched[2]

\* Where the bytes of a work item are to be written.
OutputPath(output_dir, work_item) ==
  <<output_dir, local_base_dir(work_item)>> \o work_item.local_path

\* C13: every file written is output_dir / keys or segments / local_path of a
\* pushed work item.
C13_WrittenUnderOutputDir ==
  \A p \in written : \E j \in 1..Len(pushed) : p = OutputPath(OutputDir, pushed[j])

\* C14: the directory mkdirp computes for a work item of the resolver starts
\* with output_dir.
C14_MkdirPathUnderOutputDir ==
  (call.f = "parse_path_from_url" /\ call.pc = "mkdirp" /\ call.entry # "panic_unwrap") =>
    starts_with(MkdirPath(OutputDir, call.ret.v), <<OutputDir>>)

\* C15: a uri that does not resolve does not abort the run: main does not
\* panic in the update.
C15_ResolverErrorSkipped ==
  ~(ctrl.pc = "panicked" /\ UpdatePanicked)

\* C16: for an absolute url U the resolver's remote_url is the Url that U
\* alone parses to, whatever the manifest url; no join is attempted.
C16_AbsoluteUrlKept ==
  (call.f = "parse_path_from_url" /\ call.pc # "called" /\ call.url \in AbsoluteRefs) =>
    /\ call.ret.ok
    /\ call.ret.v.remote_url = UrlParse(call.url).v
    /\ ~call.joined

\* An absolute url resolved against a manifest url of another host.
C16_Witness ==
  /\ call.f = "parse_path_from_url" /\ call.pc = "returned"
  /\ call.url = "http://g/v/c.ts"
  /\ call.manifest_url = BaseUrl
  /\ call.ret.ok

\* C17: for a manifest-relative R the remote_url is manifest_url.join(R); the
\* join is attempted exactly when R alone fails to parse with
\* RelativeUrlWithoutBase, and any other parse error of R is returned as it
\* is, with no work item.
C17_RelativeJoinedOrErrorKept ==
  (call.f = "parse_path_from_url" /\ call.pc # "called") =>
    LET alone == UrlParse(call.url) IN
      /\ call.joined <=> (~alone.ok /\ alone.e = "RelativeUrlWithoutBase")
      /\ call.joined =>
           /\ call.ret.ok = UrlJoin(call.manifest_url, call.url).ok
           /\ call.ret.ok => call.ret.v.remote_url = UrlJoin(call.manifest_url, call.url).v
      /\ (~alone.ok /\ alone.e # "RelativeUrlWithoutBase") => call.ret = alone

\* A relative reference with a directory, joined to the manifest url.
C17_Witness ==
  /\ call.f = "parse_path_from_url" /\ call.pc = "returned"
  /\ call.url = "d/b.ts" /\ call.manifest_url = BaseUrl
  /\ call.joined
  /\ call.ret.ok /\ call.ret.v.remote_url = [host |-> "h", path |-> <<"live", "d", "b.ts">>]

\* C20: integer accepts "0" or a non-zero digit and the digits after it:
\* integer("0") is 0, integer("007") takes "0" and leaves "07", integer("-1")
\* and integer("") fail, and a numeral above u64::MAX is a parse error, not an
\* abort.  Stated of both integer parsers of the repository.
C20_IntegerNeverAborts ==
  call.f \in {"integer", "hls_parser::integer"} /\ call.pc # "called" =>
    /\ call.pc = "returned"
    /\ call.input = <<"0">> => call.ret = POk(<<>>, <<"0">>)
    /\ call.input = <<"0", "0", "7">> => call.ret = POk(<<"0", "7">>, <<"0">>)
    /\ call.input \in {<<>>, <<"-", "1">>} => call.ret = PErr
    /\ call.input \in LongNumerals \ {U64Max} => call.ret = PErr
    /\ call.input = U64Max => call.ret = POk(<<>>, U64Max)
    /\ call.ret.ok <=> call.input # <<>> /\ call.input[1] \in Digits
                        /\ call.input \notin LongNumerals \ {U64Max}

\* C18: a parse that leaves text unconsumed is a failure: Manifest::parse
\* and from_str answer an error (from_str the Syntax error) and no list of
\* lines.
C18_SuffixIsHardFailure ==
  /\ call.f \in {"Manifest::parse", "Deserializer::from_str"}
  /\ call.pc = "returned"
  /\ all_tags(call.input).ok /\ all_tags(call.input).rest # <<>>
  => /\ ~call.ret.ok
     /\ call.f = "Deserializer::from_str" => call.ret = Err("Syntax")

\* What the schema makes of a line of DecoderChunks.
ExpectedLine(chunk) ==
  CASE chunk = ChunkM3U -> DecodedTag("M3u", None)
    [] chunk = ChunkVersion -> DecodedTag("Version", Some(<<"3">>))
    [] chunk = ChunkInf -> DecodedTag("Inf", Some(<<"1", ".", "5">>))
    [] chunk = ChunkPlaylistType -> DecodedTag("PlaylistType", Some("Vod"))
    [] chunk = ChunkUri -> DecodedUri(<<"a", ".", "t", "s">>)
    [] OTHER -> DecodedTag("Unknown", None)

\* C19: a tag whose name the schema does not have is never fatal, whatever
\* its argument: from_str succeeds, the line is Tag::Unknown, and the lines
\* around it are decoded as they are without it.
C19_UnknownTagNeverFatal ==
  /\ call.f = "from_str" /\ call.pc \in {"returned", "panicked"}
  /\ \E k \in 1..Len(call.lines) : call.lines[k] \in UnknownChunks
  /\ \A k \in 1..Len(call.lines) : call.lines[k] \in UnknownChunks \cup PlainChunks
  => /\ call.pc = "returned"
     /\ call.ret.ok
     /\ call.ret.v = [k \in 1..Len(call.lines) |-> ExpectedLine(call.lines[k])]

\* The alternative of attr_val an answer comes from.
AttrKind(r) == IF r.ok THEN r.v.k ELSE "none"

\* The answer r is the answer q of the alternative named k.
AnswerOf(r, k, q) == r.ok /\ r.rest = q.rest /\ r.v = [k |-> k, v |-> q.v]

\* C21: attr_val answers with the first of hex_sequence, resolution, float,
\* integer, quoted_string, keyword1 that matches: 0x42 is a Hex value and
\* 1024x768 a Resolution, and a text one of the two matches is never an
\* Integer with the rest left over.
C21_AttrValFirstMatchWins ==
  call.f = "attr_val" /\ call.pc = "returned" =>
    /\ IF hex_sequence(call.input).ok
          THEN AnswerOf(call.ret, "Hex", hex_sequence(call.input))
        ELSE IF resolution(call.input).ok THEN call.ret = resolution(call.input)
        ELSE IF float(call.input).ok THEN AnswerOf(call.ret, "Float", float(call.input))
        ELSE IF integer(call.input).ok THEN AnswerOf(call.ret, "Integer", integer(call.input))
        ELSE IF quoted_string(call.input).ok
          THEN AnswerOf(call.ret, "String", quoted_string(call.input))
        ELSE IF keyword1(call.input).ok
          THEN AnswerOf(call.ret, "Keyword", keyword1(call.input))
        ELSE call.ret = PErr
    /\ call.input = <<"0", "x", "4", "2">> =>
         call.ret = POk(<<>>, [k |-> "Hex", v |-> <<"4", "2">>])
    /\ call.input = <<"1", "0", "2", "4", "x", "7", "6", "8">> =>
         call.ret = POk(<<>>, [k |-> "Resolution", width |-> <<"1", "0", "2", "4">>,
                               height |-> <<"7", "6", "8">>])
    /\ (hex_sequence(call.input).ok \/ resolution(call.input).ok) =>
         AttrKind(call.ret) # "Integer"

\* attr_val answered for 0x42, which integer alone reads as 0 before "x42".
C21_Witness ==
  /\ call.f = "attr_val" /\ call.pc = "returned"
  /\ call.input = <<"0", "x", "4", "2">>
  /\ integer(call.input) = POk(<<"x", "4", "2">>, <<"0">>)
  /\ AttrKind(call.ret) = "Hex"

\* The rule a line falls under, the first that applies: a line ending alone
\* is blank, "#EXT.." is a tag, any other '#' a comment, the rest a uri.
RuleOf(chunk) ==
  IF chunk \in {<<"\n">>, <<"\r", "\n">>} THEN "blank"
  ELSE IF StartsWith(chunk, <<"#", "E", "X", "T">>) THEN "tag"
  ELSE IF StartsWith(chunk, <<"#">>) THEN "comment"
  ELSE "uri"

\* The lines of LineChunks that are no line of the grammar.
Malformed == {ChunkExtBlank, ChunkIndented}

\* The lines before the first malformed one.
RECURSIVE WellFormedPrefix(_)
WellFormedPrefix(ls) ==
  IF ls = <<>> \/ ls[1] \in Malformed THEN <<>> ELSE <<ls[1]>> \o WellFormedPrefix(Tail(ls))

IsKept(chunk) == RuleOf(chunk) \in {"tag", "uri"}

\* A line without its line ending.
Chomp(chunk) == Take(chunk, TillLen(chunk, EolChars))

\* The parsed line is the line the chunk is: a uri with the chunk's text, or
\* a tag whose name the chunk spells after "#EXT" or "#EXT-X-".
IsLineOf(line, chunk) ==
  IF RuleOf(chunk) = "uri" THEN line = ParsedUri(Chomp(chunk))
  ELSE /\ line.t = "Tag"
       /\ \/ StartsWith(chunk, <<"#", "E", "X", "T">> \o line.name)
          \/ StartsWith(chunk, <<"#", "E", "X", "T", "-", "X", "-">> \o line.name)
       /\ line.name = CASE chunk = ChunkM3U -> <<"M", "3", "U">>
                         [] chunk = ChunkVersion -> <<"V", "E", "R", "S", "I", "O", "N">>
                         [] chunk = ChunkNew -> <<"N", "E", "W">>

\* C22: each line is taken by the first rule that applies (blank, #EXT tag,
\* other # comment, uri); blank lines and comments are dropped, and the list
\* of parsed lines holds the tags and uris, in the order of the input.  A
\* line no rule takes ends the list; the text from it on is left.
C22_LinesClassifiedInOrder ==
  call.f = "all_tags" /\ call.pc = "returned" =>
    IF WellFormedPrefix(call.lines) = <<>> THEN call.ret = PErr
    ELSE /\ call.ret.ok
         /\ call.ret.rest =
              Concat(SubSeq(call.lines, Len(WellFormedPrefix(call.lines)) + 1, Len(call.lines)))
         /\ Len(call.ret.v) = Len(SelectSeq(WellFormedPrefix(call.lines), IsKept))
         /\ \A k \in 1..Len(call.ret.v) :
              IsLineOf(call.ret.v[k], SelectSeq(WellFormedPrefix(call.lines), IsKept)[k])

\* A comment, then a uri: the comment is dropped, the uri is the list.
C22_Witness ==
  /\ call.f = "all_tags" /\ call.pc = "returned"
  /\ call.lines = <<ChunkComment, ChunkUri>>
  /\ call.ret = POk(<<>>, <<ParsedUri(<<"a", ".", "t", "s">>)>>)

\* C23: decoding the hex encoding of a byte sequence gives the byte sequence
\* back, and decoding a digit text of odd length fails with InvalidHex.
C23_HexRoundTrip ==
  call.f = "bytes" /\ call.pc = "returned" =>
    /\ call.encoded # None => call.ret = Ok(call.encoded[1])
    /\ Len(call.input) % 2 = 1 => call.ret = Err("InvalidHex")

\* Two bytes with digits above 9 came back from their four digits.
C23_Witness ==
  /\ call.f = "bytes" /\ call.pc = "returned"
  /\ call.encoded = Some(<<171, 10>>)
  /\ call.input = <<"a", "b", "0", "a">>
  /\ call.ret = Ok(<<171, 10>>)

\* C24: for numbers w and h the resolution parser reads the text "{w}x{h}"
\* whole, as the Resolution of width w and height h, and the decoder writes
\* that value as the same text.
C24_ResolutionRoundTrip ==
  call.f = "resolution" =>
    /\ call.pc # "called" =>
         /\ call.parsed.ok /\ call.parsed.rest = <<>>
         /\ call.parsed.v.k = "Resolution"
         /\ NumeralValue(call.parsed.v.width) = call.width
         /\ NumeralValue(call.parsed.v.height) = call.height
    /\ call.pc = "returned" => call.ret = Ok(call.input)

\* 1024x768 was parsed and written back.
C24_Witness ==
  /\ call.f = "resolution" /\ call.pc = "returned"
  /\ call.width = 1024 /\ call.height = 768
  /\ call.parsed.ok
  /\ call.ret = Ok(<<"1", "0", "2", "4", "x", "7", "6", "8">>)

\* C25: segment_count never decreases, an update raises it by one for each
\* Segment event it emits, and it is the number of Segment events the
\* watcher has emitted in its life.
C25_SegmentCountCountsSegments ==
  /\ [](segment_count = Len(emitted))
  /\ [][ /\ segment_count' >= segment_count
         /\ segment_count' - segment_count = Len(emitted') - Len(emitted) ]_vars

\* An update that emitted Segment events after an earlier one had.
C25_Witness ==
  /\ last.before >= 1
  /\ segment_count > last.before
  /\ SegmentsOf(last.events) # <<>>

\* The positions of a task between two items.
BetweenItems ==
  {"unspawned", "loop", "sleep", "steal", "sleep_empty", "sleep_retry", "exited"}

\* C26: the stop flag is read only between items.  A task holds no item
\* where it reads the flag, it leaves its loop only there and with the flag
\* set, and a task that holds an item goes on with that item whatever the
\* flag says: it keeps the item to the next step, writes it, or is ended by a
\* failed request, read, mkdirp or write.
C26_StopReadBetweenItems ==
  /\ [](\A w \in Workers : wpc[w] \in BetweenItems => witem[w] = NoItem)
  /\ [][\A w \in Workers :
         /\ (wpc'[w] = "exited" /\ wpc[w] # "exited") =>
              /\ is_done
              /\ witem[w] = NoItem
              /\ wpc[w] \in {"loop", "sleep_empty"}
         /\ (witem[w] # NoItem /\ wpc'[w] # wpc[w]) =>
              \/ witem'[w] = witem[w] /\ wpc'[w] \notin BetweenItems
              \/ wpc'[w] \in PanicPcs
              \/ /\ wpc[w] = "write" /\ wpc'[w] = "steal"
                 /\ WritePath(OutputDir, witem[w]) \in written' ]_vars

\* The flag is set while a task is about to write the item it stole.
C26_Witness ==
  /\ is_done
  /\ \E w \in Workers : wpc[w] = "write" /\ witem[w] # NoItem

\* The tasks that have stolen x and not yet sent its request.
Holding(x) == {w \in Workers : wpc[w] = "get" /\ witem[w] = x}

\* C27: every pushed item is stolen by at most one task and fetched at most
\* once: each item pushed is in the deque, in the hands of one task that has
\* just stolen it, or fetched, and in no two of these; a steal hands the
\* front item to the one task that made it.
C27_ItemStolenOnce ==
  /\ [](/\ Len(fetched) <= Len(pushed)
        /\ \A x \in Range(pushed) \cup Range(fetched) \cup Range(queue) :
             Count(pushed, x) = Count(queue, x) + Cardinality(Holding(x)) + Count(fetched, x))
  /\ [][Len(queue') < Len(queue) =>
         /\ Len(queue') = Len(queue) - 1
         /\ \/ Len(fetched') = Len(fetched) + 1 /\ witem' = witem
            \/ /\ fetched' = fetched
               /\ Cardinality({w \in Workers : witem'[w] # witem[w]}) = 1 ]_vars

\* Two tasks raced for the deque: one holds the first item, the other was
\* answered Retry, and the second item is still in the deque.
C27_Witness ==
  /\ Len(pushed) = 2 /\ Len(queue) = 1
  /\ \E w \in Workers : \E v \in Workers :
       /\ wpc[w] = "get" /\ witem[w] = pushed[1]
       /\ wpc[v] = "sleep_retry"

\* The positions a task may go to from a position of the Success arm: the
\* next step of the item, or the panic of the step that failed.
StepsAfter(pc) ==
  CASE pc = "get" -> {"body", "panic_unwrap", "panic_status"}
    [] pc = "body" -> {"mkdirp", "panic_unwrap"}
    [] pc = "mkdirp" -> {"locked", "panic_unwrap", "panic_assert"}
    [] pc = "locked" -> {"create", "write"}
    [] pc = "create" -> {"write", "panic_unwrap"}
    [] pc = "write" -> {"steal", "panic_unwrap"}
    [] pc \in PanicPcs -> {}
    [] OTHER -> BetweenItems \cup {"get"}

\* C28: a task takes its item through the GET and the status test, the read
\* of the body, mkdirp and the write, in this order; it is at the write only
\* when create_dir_all has succeeded for the item's directory, a file is
\* written only by the write step, and a step that failed ends the task:
\* nothing of the item runs after it.
C28_StepsInOrder ==
  /\ [](\A w \in Workers :
          wpc[w] = "write" =>
            /\ MkdirPath(OutputDir, witem[w]) \in MKDIR_CACHE
            /\ CallsOf(dir_calls, MkdirPath(OutputDir, witem[w])).ok >= 1)
  /\ [][/\ \A w \in Workers : wpc'[w] # wpc[w] => wpc'[w] \in StepsAfter(wpc[w])
        /\ written' # written =>
             \E w \in Workers :
               /\ wpc[w] = "write" /\ wpc'[w] = "steal"
               /\ written' = written \cup {WritePath(OutputDir, witem[w])}
        /\ dir_calls' # dir_calls => \E w \in Workers : wpc[w] = "create" ]_vars

\* One task has written its item and is back at its steal, another was ended
\* by a step that failed.
C28_Witness ==
  /\ written # {}
  /\ \E w \in Workers : \E v \in Workers :
       /\ wpc[w] = "steal" /\ wpc[v] \in PanicPcs

\* C29: a directory enters the cache only when its create_dir_all call has
\* succeeded.  A call that fails leaves the cache as it was and mkdirp
\* returns the error (which the caller unwraps); the lookup of a later mkdirp
\* for that directory misses and create_dir_all is called again.
C29_CachedOnlyAfterSuccess ==
  /\ [](\A p \in MKDIR_CACHE : CallsOf(dir_calls, p).ok >= 1)
  /\ [][/\ \A w \in Workers :
             /\ (wpc[w] = "create" /\ wpc'[w] # "create") =>
                  /\ CallsOf(dir_calls', MkdirPath(OutputDir, witem[w])).n
                       = CallsOf(dir_calls, MkdirPath(OutputDir, witem[w])).n + 1
                  /\ IF CallsOf(dir_calls', MkdirPath(OutputDir, witem[w])).ok
                          = CallsOf(dir_calls, MkdirPath(OutputDir, witem[w])).ok
                     THEN /\ MKDIR_CACHE' = MKDIR_CACHE
                          /\ MkdirPath(OutputDir, witem[w]) \notin MKDIR_CACHE'
                          /\ wpc'[w] = "panic_unwrap"
                     ELSE /\ MKDIR_CACHE' = MKDIR_CACHE \cup {MkdirPath(OutputDir, witem[w])}
                          /\ wpc'[w] = "write"
             /\ (wpc[w] = "locked" /\ wpc'[w] # "locked") =>
                  (wpc'[w] = "create" <=> MkdirPath(OutputDir, witem[w]) \notin MKDIR_CACHE)
        /\ MKDIR_CACHE' # MKDIR_CACHE => \E w \in Workers : wpc[w] = "create" ]_vars

\* create_dir_all failed for a directory and a later mkdirp for the same
\* directory called it again, with success.
C29_Witness ==
  \E p \in DOMAIN dir_calls :
    /\ dir_calls[p] = [n |-> 2, ok |-> 1]
    /\ p \in MKDIR_CACHE
    /\ \E w \in Workers : wpc[w] = "panic_unwrap"

\* The positions of the nodes of one kind.
NodesAt(ns, k) == {j \in 1..Len(ns) : ns[j].k = k}

\* The nodes after position s and before position e are an AttributeName,
\* an AttributeValue, an AttributeName, .., an AttributeValue.
Alternating(ns, s, e) ==
  /\ s < e
  /\ (e - s - 1) % 2 = 0
  /\ \A j \in (s + 1)..(e - 1) :
       ns[j].k = IF (j - s) % 2 = 1 THEN "AttributeName" ELSE "AttributeValue"

\* C30: the nodes of a parsed manifest begin with the one ManifestStart and
\* end with the one ManifestEnd; a TagName follows every TagStart; every
\* AttributesStart has its AttributesEnd and every AttributesEnd its
\* AttributesStart, with names and values in turn between the two and
\* nowhere else, so that no list lies inside another.
C30_NodesWellFormed ==
  (call.f = "Manifest::nodes" /\ call.pc = "returned" /\ call.ret.ok) =>
    /\ NodesAt(call.ret.v, "ManifestStart") = {1}
    /\ NodesAt(call.ret.v, "ManifestEnd") = {Len(call.ret.v)}
    /\ Len(call.ret.v) >= 2
    /\ \A j \in NodesAt(call.ret.v, "TagStart") : j + 1 \in NodesAt(call.ret.v, "TagName")
    /\ \A s \in NodesAt(call.ret.v, "AttributesStart") :
         \E e \in NodesAt(call.ret.v, "AttributesEnd") : Alternating(call.ret.v, s, e)
    /\ \A e \in NodesAt(call.ret.v, "AttributesEnd") :
         \E s \in NodesAt(call.ret.v, "AttributesStart") : Alternating(call.ret.v, s, e)
    /\ \A j \in NodesAt(call.ret.v, "AttributeName") \cup NodesAt(call.ret.v, "AttributeValue") :
         \E s \in NodesAt(call.ret.v, "AttributesStart") :
           \E e \in NodesAt(call.ret.v, "AttributesEnd") :
             s < j /\ j < e /\ Alternating(call.ret.v, s, e)

\* The nodes of two tags with attribute lists, of two attributes and of one.
C30_Witness ==
  /\ call.f = "Manifest::nodes" /\ call.pc = "returned"
  /\ call.input = ChunkKey \o ChunkStreamInf
  /\ call.ret.ok
  /\ Len(call.ret.v) = 16
  /\ Cardinality(NodesAt(call.ret.v, "AttributesStart")) = 2

\* The step consumes a TagName node as a variant's name: the TagName access
\* asked deserialize_any for it and the visitor took it.
ConsumesTagName ==
  /\ call.f = "from_str" /\ call.pc = "variant_seed" /\ call.access = "TagName"
  /\ call'.pc = "variant"

\* The node the cursor of the Deserializer d points at.
NodeAt(d) == d.nodes[d.next_index + 1]

\* C31: when the decoder has consumed a TagName node, the context is the one
\* the node after it names: IntAttribute for an Integer, FloatAttribute for
\* a Float, StringAttribute for a String, Attributes for an AttributesStart
\* and Manifest for any other node, whatever the tag's variant is.
C31_ContextFromNextNode ==
  [][ ConsumesTagName =>
        /\ NodeAt(call.de).k = "TagName"
        /\ call'.de.next_index = call.de.next_index + 1
        /\ call'.de.nodes = call.de.nodes
        /\ call'.de.context =
             (IF NodeAt(call'.de).k = "Integer" THEN "IntAttribute"
              ELSE IF NodeAt(call'.de).k = "Float" THEN "FloatAttribute"
              ELSE IF NodeAt(call'.de).k = "String" THEN "StringAttribute"
              ELSE IF NodeAt(call'.de).k = "AttributesStart" THEN "Attributes"
              ELSE "Manifest") ]_vars

\* The name of EXTINF is consumed and the Float after it makes the context
\* FloatAttribute.
C31_Witness ==
  /\ call.f = "from_str" /\ call.pc = "variant" /\ call.access = "TagName"
  /\ call.field = "Inf"
  /\ NodeAt(call.de).k = "Float"
  /\ call.de.context = "FloatAttribute"

\* C32: whenever the decoder starts on the next element of the list of lines
\* (Lines::next_element_seed is called), the context is Manifest and the
\* cursor is at a TagStart, a Uri or the ManifestEnd, whatever the line
\* before it was.
C32_ContextRestoredAtLineBoundary ==
  call.f = "from_str" /\ call.pc = "next_element_seed" =>
    /\ call.de.context = "Manifest"
    /\ peek(call.de).ok
    /\ peek(call.de).v.k \in {"TagStart", "Uri", "ManifestEnd"}

\* A step of the loop of a struct's visit_map, from one position to another.
MapStep(from, to) == call.f = "from_str" /\ call.pc = from /\ call'.pc = to

\* The step consumes exactly the node under the cursor, which is a k.
ConsumesOne(k) ==
  /\ NodeAt(call.de).k = k
  /\ call'.de.next_index = call.de.next_index + 1
  /\ call'.de.nodes = call.de.nodes

\* C33: the iteration of an attribute map ends exactly when the cursor is at
\* AttributesEnd, which is consumed and makes the context Manifest; before
\* that each turn consumes exactly one AttributeName and one AttributeValue,
\* also when the struct has no field of that name and the value is dropped.
C33_AttributeMapIteration ==
  [][ /\ MapStep("next_key_seed", "visit_map_end") =>
           ConsumesOne("AttributesEnd") /\ call'.de.context = "Manifest"
      /\ call.f = "from_str" /\ call.pc = "next_key_seed"
           /\ NodeAt(call.de).k = "AttributesEnd" => call'.pc = "visit_map_end"
      /\ MapStep("next_key_seed", "next_value_seed") => ConsumesOne("AttributeName")
      /\ MapStep("next_value_seed", "next_key_seed") =>
           /\ ConsumesOne("AttributeValue")
           /\ (call'.attrs = call.attrs) <=> (call.key = "__ignore")
    ]_vars

\* The map of a STREAM-INF or KEY tag has ended after a name the struct does
\* not have: the two nodes before the AttributesEnd are its name and value.
C33_Witness ==
  /\ call.f = "from_str" /\ call.pc = "visit_map_end"
  /\ call.de.context = "Manifest"
  /\ call.de.nodes[call.de.next_index].k = "AttributesEnd"
  /\ call.de.nodes[call.de.next_index - 1].k = "AttributeValue"
  /\ call.de.nodes[call.de.next_index - 2].k = "AttributeName"
  /\ StructField(StructOf(call.field), call.de.nodes[call.de.next_index - 2].v) = "__ignore"

\* The cursor of d is behind the last of its nodes.
AtEnd(d) == d.next_index = Len(d.nodes)

\* C34: the nodes are consumed from left to right: the cursor never moves
\* back, moves by one for each node consumed and never passes the number of
\* nodes; a peek or an advance at the end of the nodes is UnexpectedEof and
\* leaves the cursor where it is.
C34_CursorLeftToRight ==
  /\ [](/\ call.f \in {"from_str", "Deserializer::peek", "Deserializer::next", "take1"} =>
             call.de.next_index <= Len(call.de.nodes)
        /\ call.f \in {"Deserializer::peek", "Deserializer::next", "take1"}
             /\ call.pc = "returned" =>
             IF AtEnd(call.input) THEN call.ret = Err("UnexpectedEof") /\ call.de = call.input
             ELSE /\ call.ret.ok
                  /\ call.de.nodes = call.input.nodes
                  /\ call.de.next_index =
                       call.input.next_index + (IF call.f = "Deserializer::peek" THEN 0 ELSE 1)
                  /\ call.f # "Deserializer::next" => call.ret.v = NodeAt(call.input))
  /\ [][ call.f = "from_str" /\ call.pc # "called" =>
           /\ call'.de.nodes = call.de.nodes
           /\ call'.de.next_index \in {call.de.next_index, call.de.next_index + 1} ]_vars

\* next was called with the cursor at the end of the nodes.
C34_Witness ==
  /\ call.f = "Deserializer::next" /\ call.pc = "returned"
  /\ AtEnd(call.input) /\ Len(call.input.nodes) > 2
  /\ call.ret = Err("UnexpectedEof")

\* The text begins with a line ending.
StartsWithEol(t) ==
  \/ Len(t) >= 1 /\ t[1] = "\n"
  \/ Len(t) >= 2 /\ t[1] = "\r" /\ t[2] = "\n"

\* C35: the argument of a tag is the first that matches of: a float, a
\* comma and a title up to the end of the line (the title is dropped), a
\* list of attributes, an integer with a line ending right after it, a
\* string without white space.  An integer that anything else follows is
\* never an Integer.
C35_TagArgsFirstMatchWins ==
  call.f = "tag_args" /\ call.pc = "returned" =>
    /\ IF float(call.input).ok /\ Tag(float(call.input).rest, <<",">>).ok
          THEN /\ call.ret.ok /\ call.ret.v = [k |-> "Float", v |-> float(call.input).v]
               /\ \E n \in 0..Len(call.input) :
                    /\ call.ret.rest = SubSeq(call.input, n + 1, Len(call.input))
                    /\ \A j \in 1..n : j > Len(call.input) - Len(float(call.input).rest) + 1
                                         => call.input[j] \notin EolChars
                    /\ call.ret.rest # <<>> => call.ret.rest[1] \in EolChars
        ELSE IF attrs(call.input).ok
          THEN AnswerOf(call.ret, "Attributes", attrs(call.input))
        ELSE IF integer(call.input).ok /\ StartsWithEol(integer(call.input).rest)
          THEN AnswerOf(call.ret, "Integer", integer(call.input))
        ELSE IF call.input # <<>> /\ call.input[1] \notin WHITESPACE
          THEN /\ call.ret.ok /\ call.ret.v.k = "String"
               /\ call.ret.v.v \o call.ret.rest = call.input
               /\ \A j \in 1..Len(call.ret.v.v) : call.ret.v.v[j] \notin WHITESPACE
               /\ call.ret.rest # <<>> => call.ret.rest[1] \in WHITESPACE
        ELSE call.ret = PErr
    /\ call.ret.ok /\ call.ret.v.k = "Integer" => StartsWithEol(call.ret.rest)
    /\ call.input = <<"1", ".", "5", ",", "a", " ", "b", "\n">> =>
         call.ret = POk(<<"\n">>, [k |-> "Float", v |-> <<"1", ".", "5">>])
    /\ call.input = <<"1", "2", "a", "\n">> =>
         call.ret = POk(<<"\n">>, [k |-> "String", v |-> <<"1", "2", "a">>])

\* tag_args answered for 12a: an integer that a letter follows is a String.
C35_Witness ==
  /\ call.f = "tag_args" /\ call.pc = "returned"
  /\ call.input = <<"1", "2", "a", "\n">>
  /\ integer(call.input) = POk(<<"a", "\n">>, <<"1", "2">>)
  /\ call.ret.ok /\ call.ret.v.k = "String"

\* ----------------------------------------------------- from_ast by itself
\* src/manifest.rs turns the tags of an ast::Manifest into a MediaManifest.

\* The tags that follow the first one in an ast, at most.
MaxTags == 6

\* SegmentContext::default().
Default ==
  [byte_length |-> None, byte_offset |-> None, date_time |-> None, discontinuity |-> FALSE,
   duration |-> None, init_byte_range |-> None, init_uri |-> None, keys |-> <<>>,
   title |-> None]

\* Iterator::position on keys: the first index whose key has the format, 0
\* for None.
KeyPosition(keys, key_format) ==
  IF \E i \in 1..Len(keys) : keys[i].key_format = key_format
    THEN CHOOSE i \in 1..Len(keys) :
           /\ keys[i].key_format = key_format
           /\ \A j \in 1..(i - 1) : keys[j].key_format # key_format
    ELSE 0

\* Vec::remove(i), with i counted from 1.
VecRemove(v, i) == SubSeq(v, 1, i - 1) \o SubSeq(v, i + 1, Len(v))

\* add_key without the removal of the key of the same format.
add_key_push_only(self, key) == [self EXCEPT !.keys = Append(@, key)]

\* SegmentContext::add_key.
add_key(self, key) ==
  IF KeyPosition(self.keys, key.key_format) > 0
    THEN [self EXCEPT !.keys = Append(VecRemove(@, KeyPosition(self.keys, key.key_format)), key)]
    ELSE [self EXCEPT !.keys = Append(@, key)]

set_date_time(self, date_time) == [self EXCEPT !.date_time = Some(date_time)]
set_init_map(self, map) == [self EXCEPT !.init_uri = Some(map.uri), !.init_byte_range = map.byte_range]
set_duration(self, duration) == [self EXCEPT !.duration = Some(duration)]
set_title(self, title) == [self EXCEPT !.title = title]
set_byte_offset(self, offset) == [self EXCEPT !.byte_offset = offset]
set_byte_length(self, length) == [self EXCEPT !.byte_length = Some(length)]
set_discontinuity(self) == [self EXCEPT !.discontinuity = TRUE]

\* reset that forgets the keys and the init map with the rest.
reset_everything(self) == Default

\* SegmentContext::reset.
reset(self) ==
  [self EXCEPT !.duration = None, !.title = None, !.date_time = None,
               !.discontinuity = FALSE, !.byte_offset = None, !.byte_length = None]

\* Segment::from_uri.
from_uri(context, u) ==
  IF context.duration = None THEN Err("MissingExtInf")
  ELSE Ok([byte_length |-> context.byte_length, byte_offset |-> context.byte_offset,
           date_time |-> context.date_time, discontinuity |-> context.discontinuity,
           duration |-> context.duration[1], init_byte_range |-> context.init_byte_range,
           init_uri |-> context.init_uri, keys |-> context.keys, title |-> context.title,
           uri |-> u])

\* ast::AttrValue and ast::Attr.
EnumString(s) == [k |-> "EnumString", v |-> s]
QuotedString(s) == [k |-> "QuotedString", v |-> s]
AttrHex(b) == [k |-> "HexSequence", v |-> b]
Attr(key, value) == [key |-> key, value |-> value]

InvalidAttrType(a) == Err(<<"InvalidAttrType", a.key>>)
expect_string(a) == IF a.value.k = "QuotedString" THEN Ok(a.value.v) ELSE InvalidAttrType(a)
expect_bytes(a) == IF a.value.k = "HexSequence" THEN Ok(a.value.v) ELSE InvalidAttrType(a)

\* expect_enum with parse_key's closure.
EncryptionMethods == {"NONE", "AES-128", "SAMPLE-AES"}
expect_enum(a) ==
  IF a.value.k # "EnumString" THEN InvalidAttrType(a)
  ELSE IF a.value.v \in EncryptionMethods THEN Ok(a.value.v)
  ELSE Err(<<"UnknownEncryptionType", a.value.v>>)

\* The end of a computation: a value or an error returned, or a panic.
Aborted == [ok |-> FALSE, e |-> "panic"]

\* size_of::<u128>().
SizeOfU128 == 16

\* The body of parse_map's loop and parse_map.
RECURSIVE ParseMapLoop(_, _, _)
ParseMapLoop(attributes, i, acc) ==
  IF i > Len(attributes) THEN Ok(acc)
  ELSE IF attributes[i].key \in {"URI", "BYTERANGE"}
    THEN IF expect_string(attributes[i]).ok
           THEN ParseMapLoop(attributes, i + 1,
                  IF attributes[i].key = "URI"
                    THEN [acc EXCEPT !.uri = Some(expect_string(attributes[i]).v)]
                    ELSE [acc EXCEPT !.byte_range = Some(expect_string(attributes[i]).v)])
           ELSE expect_string(attributes[i])
  ELSE ParseMapLoop(attributes, i + 1, acc)

parse_map(attributes) ==
  IF ~ParseMapLoop(attributes, 1, [uri |-> None, byte_range |-> None]).ok
    THEN ParseMapLoop(attributes, 1, [uri |-> None, byte_range |-> None])
  ELSE IF ParseMapLoop(attributes, 1, [uri |-> None, byte_range |-> None]).v.uri = None
    THEN Err(<<"MissingAttribute", "URI">>)
  ELSE Ok([uri |-> ParseMapLoop(attributes, 1, [uri |-> None, byte_range |-> None]).v.uri[1],
           byte_range |-> ParseMapLoop(attributes, 1, [uri |-> None, byte_range |-> None]).v.byte_range])

\* One attribute of parse_key's loop: the locals after it, an error, or the
\* panic of split_at on an IV of fewer than 16 bytes.
ParseKeyAttr(a, acc) ==
  CASE a.key = "IV" ->
         IF ~expect_bytes(a).ok THEN expect_bytes(a)
         ELSE IF Len(expect_bytes(a).v) < SizeOfU128 THEN Aborted
         ELSE Ok([acc EXCEPT !.iv = Some(SubSeq(expect_bytes(a).v, 1, SizeOfU128))])
    [] a.key = "KEYFORMAT" ->
         IF expect_string(a).ok THEN Ok([acc EXCEPT !.key_format = Some(expect_string(a).v)])
         ELSE expect_string(a)
    [] a.key = "KEYFORMATVERSIONS" ->
         IF expect_string(a).ok
           THEN Ok([acc EXCEPT !.key_format_versions = Some(expect_string(a).v)])
           ELSE expect_string(a)
    [] a.key = "METHOD" ->
         IF expect_enum(a).ok THEN Ok([acc EXCEPT !.method = Some(expect_enum(a).v)])
         ELSE expect_enum(a)
    [] a.key = "URI" ->
         IF expect_string(a).ok THEN Ok([acc EXCEPT !.uri = Some(expect_string(a).v)])
         ELSE expect_string(a)
    [] OTHER -> Ok(acc)

RECURSIVE ParseKeyLoop(_, _, _)
ParseKeyLoop(attributes, i, acc) ==
  IF i > Len(attributes) THEN Ok(acc)
  ELSE IF ParseKeyAttr(attributes[i], acc).ok
    THEN ParseKeyLoop(attributes, i + 1, ParseKeyAttr(attributes[i], acc).v)
  ELSE ParseKeyAttr(attributes[i], acc)

\* unwrap_or.
UnwrapOr(o, d) == IF o = None THEN d ELSE o[1]

\* The EncryptionKey parse_key builds from the locals of its loop.
KeyOf(r) ==
  IF ~r.ok THEN r
  ELSE IF r.v.method = None THEN Err(<<"MissingAttribute", "METHOD">>)
  ELSE Ok([iv |-> r.v.iv, key_format |-> UnwrapOr(r.v.key_format, "identity"),
           key_format_versions |-> UnwrapOr(r.v.key_format_versions, "1"),
           method |-> r.v.method[1], uri |-> r.v.uri])

parse_key(attributes) ==
  KeyOf(ParseKeyLoop(attributes, 1,
          [iv |-> None, method |-> None, uri |-> None, key_format |-> None,
           key_format_versions |-> None]))

\* DateTime::parse_from_rfc3339 on the texts of the tags below.
Rfc3339 == {"2020-01-01T00:00:00Z"}
parse_from_rfc3339(string) == IF string \in Rfc3339 THEN Ok(string) ELSE Err("ParseError")

\* The tags of an ast (ast::Tag).
KeyIdentity == <<Attr("METHOD", EnumString("AES-128")), Attr("URI", QuotedString("k1"))>>
KeyIdentityNone == <<Attr("METHOD", EnumString("NONE"))>>
KeyOther ==
  <<Attr("METHOD", EnumString("SAMPLE-AES")), Attr("KEYFORMAT", QuotedString("com.apple")),
    Attr("URI", QuotedString("k2"))>>
KeyThird ==
  <<Attr("KEYFORMAT", QuotedString("com.widevine")), Attr("METHOD", EnumString("AES-128")),
    Attr("NEW", EnumString("YES"))>>
KeyNoMethod == <<Attr("URI", QuotedString("k1"))>>
KeyShortIv == <<Attr("METHOD", EnumString("AES-128")), Attr("IV", AttrHex(<<66>>))>>
MapInit == <<Attr("URI", QuotedString("init.mp4")), Attr("BYTERANGE", QuotedString("10@0"))>>

AstTags ==
  {[t |-> "Header"], [t |-> "Version", v |-> 3],
   [t |-> "Inf", duration |-> "1.5", title |-> Some("t")],
   [t |-> "Inf", duration |-> "2.5", title |-> None],
   [t |-> "Byterange", n |-> 1, o |-> Some(0)],
   [t |-> "Discontinuity"],
   [t |-> "Map", v |-> MapInit],
   [t |-> "ProgramDateTime", v |-> "2020-01-01T00:00:00Z"],
   [t |-> "ProgramDateTime", v |-> "yesterday"],
   [t |-> "TargetDuration", v |-> 6],
   [t |-> "EndList"],
   [t |-> "PlaylistType", v |-> "LIVE"],
   [t |-> "Comment"],
   [t |-> "Uri", v |-> "a.ts"]}
    \cup {[t |-> "Key", v |-> ks] : ks \in {KeyIdentity, KeyIdentityNone, KeyOther, KeyThird, KeyNoMethod,
                                        KeyShortIv}}

InitAst ==
  /\ Idle
  /\ call = [f |-> "from_ast", pc |-> "called", next_index |-> 0, tag |-> None, ret |-> None]

AstStep ==
  /\ call.f = "from_ast"
  /\ UNCHANGED <<watcherVars, driverVars, pool, worker_count, wpc, witem, mutex, MKDIR_CACHE,
                 dir_calls, written, fetched>>

\* A first tag of any kind passes for the header.
IsHeaderOrAny(first) == first # None

\* manifest.rs:251-254: the match on tags.next().
IsHeader(first) == first = Some([t |-> "Header"])

\* manifest.rs:249-264: tags.next() must be Some(Tag::Header); then the
\* locals of the loop.  first is what the iterator yields: None for an ast
\* without tags.
FromAstHeader ==
  /\ AstStep /\ call.pc = "called"
  /\ \E first \in {None} \cup {Some(t) : t \in AstTags} :
       call' = IF IsHeader(first)
                 THEN [f |-> "from_ast", pc |-> "loop", next_index |-> 1, tag |-> first,
                       ret |-> None, segments |-> <<>>, version |-> 1,
                       segment_context |-> Default, discontinuity_sequence |-> 0,
                       first_segment_sequence |-> 0, end_list |-> FALSE,
                       target_duration |-> None, playlist_type |-> None,
                       iframes_only |-> FALSE, since |-> {}, seen |-> {}]
                 ELSE [call EXCEPT !.pc = "returned", !.tag = first,
                                   !.next_index = IF first = None THEN 0 ELSE 1,
                                   !.ret = Some(Err("MissingHeader"))]

\* An error returned by `?` inside the loop, or the panic.
Failed(c, r) ==
  IF r = Aborted THEN [c EXCEPT !.pc = "panicked"]
  ELSE [c EXCEPT !.pc = "returned", !.ret = Some(r)]

\* manifest.rs:267-314: the arm of the loop's match for one tag.
Arm(c, tag) ==
  CASE tag.t = "Header" -> Failed(c, Err("MultipleHeaders"))
    [] tag.t = "Version" -> [c EXCEPT !.version = tag.v]
    [] tag.t = "Inf" ->
         [c EXCEPT !.segment_context = set_title(set_duration(@, tag.duration), tag.title)]
    [] tag.t = "Map" ->
         IF parse_map(tag.v).ok
           THEN [c EXCEPT !.segment_context = set_init_map(@, parse_map(tag.v).v)]
           ELSE Failed(c, parse_map(tag.v))
    [] tag.t = "Byterange" ->
         [c EXCEPT !.segment_context = set_byte_offset(set_byte_length(@, tag.n), tag.o)]
    [] tag.t = "Uri" ->
         IF from_uri(c.segment_context, tag.v).ok
           THEN [c EXCEPT !.segments = Append(@, from_uri(c.segment_context, tag.v).v),
                          !.segment_context = reset(@)]
           ELSE Failed(c, from_uri(c.segment_context, tag.v))
    [] tag.t = "Discontinuity" -> [c EXCEPT !.segment_context = set_discontinuity(@)]
    [] tag.t = "Key" ->
         IF parse_key(tag.v).ok
           THEN [c EXCEPT !.segment_context = add_key(@, parse_key(tag.v).v)]
           ELSE Failed(c, parse_key(tag.v))
    [] tag.t = "ProgramDateTime" ->
         IF parse_from_rfc3339(tag.v).ok
           THEN [c EXCEPT !.segment_context = set_date_time(@, parse_from_rfc3339(tag.v).v)]
           ELSE Failed(c, Err(<<"InvalidDateTime", tag.v>>))
    [] tag.t = "Daterange" -> c
    [] tag.t = "DiscontinuitySequence" -> [c EXCEPT !.discontinuity_sequence = tag.v]
    [] tag.t = "MediaSequence" -> [c EXCEPT !.first_segment_sequence = tag.v]
    [] tag.t = "EndList" -> [c EXCEPT !.end_list = TRUE]
    [] tag.t = "TargetDuration" -> [c EXCEPT !.target_duration = Some(tag.v)]
    [] tag.t = "PlaylistType" ->
         IF tag.v \in {"EVENT", "VOD"} THEN [c EXCEPT !.playlist_type = Some(tag.v)]
         ELSE Failed(c, Err(<<"UnknownPlaylistType", tag.v>>))
    [] tag.t = "IFramesOnly" -> [c EXCEPT !.iframes_only = TRUE]
    [] OTHER -> Failed(c, Aborted)  \* `_ => panic!()`: Media .. Start, Unknown, Comment

\* The kinds of the tags the loop saw, and of those it saw since the last
\* segment was built (history).
Since(c, tag) == IF tag.t = "Uri" THEN {} ELSE c.since \cup {tag.t}

\* One turn of `for tag in tags`: the iterator yields a tag (ast.rs:29-37)
\* and its arm runs.
FromAstTag ==
  /\ AstStep /\ call.pc = "loop" /\ call.next_index <= MaxTags
  /\ \E tag \in AstTags :
       call' = Arm([call EXCEPT !.tag = Some(tag), !.next_index = @ + 1,
                                !.since = Since(call, tag),
                                !.seen = @ \cup {tag.t}], tag)

\* manifest.rs:317-327: the iterator is exhausted and the manifest is built.
FromAstEnd ==
  /\ AstStep /\ call.pc = "loop"
  /\ call' = [call EXCEPT !.pc = "returned", !.tag = None,
                !.ret = Some(IF call.target_duration = None
                               THEN Err(<<"MissingAttribute", "TARGET_DURATION">>)
                               ELSE Ok([discontinuity_sequence |-> call.discontinuity_sequence,
                                        end_list |-> call.end_list,
                                        first_segment_sequence |-> call.first_segment_sequence,
                                        iframes_only |-> call.iframes_only,
                                        playlist_type |-> call.playlist_type,
                                        segments |-> call.segments,
                                        target_duration |-> call.target_duration[1],
                                        version |-> call.version]))]

NextAst == FromAstHeader \/ FromAstTag \/ FromAstEnd

\* MediaManifest::from_ast on any ast.
AstSpec == InitAst /\ [][NextAst]_vars

\* ------------------------------------------------- properties of from_ast

\* A turn of from_ast's loop: the iterator yielded a tag.
LoopTurn == call.f = "from_ast" /\ call.pc = "loop" /\ call'.tag # None

\* C36: from_ast builds one Segment per Uri tag, from the segment context
\* accumulated since the previous Uri.  A Uri with no EXTINF since the last
\* reset fails with MissingExtInf; otherwise one segment is appended that
\* holds the context's fields, and the context's duration, title, date-time,
\* discontinuity and byte range are cleared while its keys and init map stay
\* for the segments that follow.  No other tag adds a segment, and the
\* manifest returned holds the segments built.
C36_SegmentPerUri ==
  [][/\ LoopTurn /\ call'.tag[1].t = "Uri" /\ "Inf" \notin call.since =>
          call'.pc = "returned" /\ call'.ret = Some(Err("MissingExtInf"))
     /\ LoopTurn /\ call'.tag[1].t = "Uri" /\ "Inf" \in call.since =>
          /\ call'.pc = "loop"
          /\ Len(call'.segments) = Len(call.segments) + 1
          /\ SubSeq(call'.segments, 1, Len(call.segments)) = call.segments
          /\ \E seg \in {call'.segments[Len(call'.segments)]} :
               /\ seg.uri = call'.tag[1].v
               /\ Some(seg.duration) = call.segment_context.duration
               /\ seg.title = call.segment_context.title
               /\ seg.date_time = call.segment_context.date_time
               /\ seg.discontinuity = call.segment_context.discontinuity
               /\ seg.byte_length = call.segment_context.byte_length
               /\ seg.byte_offset = call.segment_context.byte_offset
               /\ seg.keys = call.segment_context.keys
               /\ seg.init_uri = call.segment_context.init_uri
               /\ seg.init_byte_range = call.segment_context.init_byte_range
               /\ seg.discontinuity <=> "Discontinuity" \in call.since
               /\ seg.date_time # None <=> "ProgramDateTime" \in call.since
               /\ seg.byte_length # None <=> "Byterange" \in call.since
          /\ call'.segment_context.duration = None
          /\ call'.segment_context.title = None
          /\ call'.segment_context.date_time = None
          /\ call'.segment_context.discontinuity = FALSE
          /\ call'.segment_context.byte_length = None
          /\ call'.segment_context.byte_offset = None
          /\ call'.segment_context.keys = call.segment_context.keys
          /\ call'.segment_context.init_uri = call.segment_context.init_uri
          /\ call'.segment_context.init_byte_range = call.segment_context.init_byte_range
     /\ LoopTurn /\ call'.tag[1].t # "Uri" /\ call'.pc = "loop" =>
          call'.segments = call.segments
     /\ call.f = "from_ast" /\ call.pc = "loop" /\ call'.pc = "returned" /\ call'.ret[1].ok =>
          call'.ret[1].v.segments = call.segments]_vars

\* Two segments were built: the first with a title, a discontinuity, a key
\* and an init map, the second without title and discontinuity but with the
\* same key and init map.
C36_Witness ==
  /\ call.f = "from_ast" /\ call.pc = "loop"
  /\ Len(call.segments) = 2
  /\ call.segments[1].title = Some("t") /\ call.segments[2].title = None
  /\ call.segments[1].duration = "1.5" /\ call.segments[2].duration = "2.5"
  /\ call.segments[1].keys # <<>> /\ call.segments[2].keys = call.segments[1].keys
  /\ call.segments[1].init_uri = Some("init.mp4")
  /\ call.segments[2].init_uri = Some("init.mp4")
  /\ call.segment_context.duration = None
  /\ call.segment_context.keys = call.segments[1].keys

\* The KEYFORMAT an attribute list names, "identity" when it names none.
FormatOf(attributes) ==
  IF \E i \in 1..Len(attributes) : attributes[i].key = "KEYFORMAT"
    THEN attributes[CHOOSE i \in 1..Len(attributes) :
                      /\ attributes[i].key = "KEYFORMAT"
                      /\ \A j \in (i + 1)..Len(attributes) : attributes[j].key # "KEYFORMAT"].value.v
    ELSE "identity"

\* The keys of another format than f, in their order.
OtherFormats(keys, f) == SelectSeq(keys, LAMBDA k : k.key_format # f)

\* C37: a segment context holds at most one key per key_format after any
\* sequence of add_key calls.  Adding a key leaves the keys of the other
\* formats in place and in order, drops the key of the same format and puts
\* the new key last; no other tag changes the keys.
C37_OneKeyPerFormat ==
  /\ [](call.f = "from_ast" /\ call.pc = "loop" =>
          \A i, j \in 1..Len(call.segment_context.keys) :
            i # j => call.segment_context.keys[i].key_format
                       # call.segment_context.keys[j].key_format)
  /\ [][/\ LoopTurn /\ call'.tag[1].t = "Key" /\ call'.pc = "loop" =>
             /\ call'.segment_context.keys # <<>>
             /\ \E key \in {call'.segment_context.keys[Len(call'.segment_context.keys)]} :
                  /\ key.key_format = FormatOf(call'.tag[1].v)
                  /\ call'.segment_context.keys =
                       Append(OtherFormats(call.segment_context.keys, key.key_format), key)
        /\ LoopTurn /\ call'.tag[1].t # "Key" /\ call'.pc = "loop" =>
             call'.segment_context.keys = call.segment_context.keys]_vars

\* The context held an identity key before keys of two other formats; a
\* second identity key was added and now comes after them.
C37_Witness ==
  /\ call.f = "from_ast" /\ call.pc = "loop"
  /\ Len(call.segments) = 1 /\ Len(call.segments[1].keys) = 3
  /\ call.segments[1].keys[1].key_format = "identity"
  /\ call.segments[1].keys[1].uri = Some("k1")
  /\ Len(call.segment_context.keys) = 3
  /\ call.segment_context.keys[1] = call.segments[1].keys[2]
  /\ call.segment_context.keys[2] = call.segments[1].keys[3]
  /\ call.segment_context.keys[3].key_format = "identity"
  /\ call.segment_context.keys[3].uri = None

\* C38: from_ast accepts a tag sequence only if its first tag is Header and
\* fails with MissingHeader otherwise; it fails with MultipleHeaders on a
\* Header that comes later, and with MissingAttribute for the target duration
\* when the tags end and no TargetDuration occurred.  An error carries no
\* manifest: the manifest is the value of an Ok only.
C38_HeaderAndTargetDuration ==
  /\ [](call.f = "from_ast" /\ call.pc = "returned" =>
          IF call.ret[1].ok
            THEN /\ "TargetDuration" \in call.seen /\ "Header" \notin call.seen
                 /\ DOMAIN call.ret[1] = {"ok", "v"}
                 /\ call.ret[1].v.target_duration = call.target_duration[1]
            ELSE DOMAIN call.ret[1] = {"ok", "e"})
  /\ [][/\ call.f = "from_ast" /\ call.pc = "called" =>
             IF call'.tag = Some([t |-> "Header"])
               THEN call'.pc = "loop" /\ call'.ret = None
               ELSE call'.pc = "returned" /\ call'.ret = Some(Err("MissingHeader"))
        /\ LoopTurn /\ call'.tag[1].t = "Header" =>
             call'.pc = "returned" /\ call'.ret = Some(Err("MultipleHeaders"))
        /\ call.f = "from_ast" /\ call.pc = "loop" /\ call'.tag = None =>
             /\ call'.pc = "returned"
             /\ "TargetDuration" \notin call.seen =>
                  call'.ret = Some(Err(<<"MissingAttribute", "TARGET_DURATION">>))
             /\ "TargetDuration" \in call.seen => call'.ret[1].ok]_vars

\* from_ast met a second Header after a segment and a TargetDuration and
\* returned MultipleHeaders.
C38_Witness ==
  /\ call.f = "from_ast" /\ call.pc = "returned"
  /\ call.tag = Some([t |-> "Header"]) /\ call.next_index > 1
  /\ {"TargetDuration", "Inf"} \subseteq call.seen /\ Len(call.segments) = 1
  /\ call.ret = Some(Err("MultipleHeaders"))

====
